---- MODULE Spec2Model ----
(***************************************************************************)
(* The coupon / promotion engine of the backend: validateCoupon,           *)
(* recordCouponUsage and applyPromotions of the promotion service, over    *)
(* the coupons, coupon_usage and promotions tables.                        *)
(*                                                                         *)
(* Conventions.  Money is in cents.  A timestamp is a natural number.      *)
(* A nullable column holds NULL (-1) or a value >= 0.  Every `await        *)
(* pool.query(...)` is one atomic step on the store and may fail; the      *)
(* synchronous code after it runs in the same step.                        *)
(***************************************************************************)
EXTENDS Integers, Sequences, FiniteSets, TLC

\* ------------------------------------------------------------------ bounds
\* Concurrent redemptions (the N of the race), and the largest usage limit.
MaxProcs == 2
MaxLimit == 2

\* ------------------------------------------------------------- vocabulary
NULL == -1

Procs == 1..MaxProcs
\* Three instants realise every order of a bound against `now`.
Times == {0, 1, 2}
CouponIds == {"c1"}
NoUser == "none"
Codes == {"SAVE10", "save10", "OTHER"}

\* SQL UPPER() / String.prototype.toUpperCase() on the codes in use.
Upper(s) == IF s = "save10" THEN "SAVE10" ELSE s

\* JavaScript truthiness of the values the checks test with `&&`.
\* An integer column arrives as a number: null and 0 are falsy.
TruthyInt(v) == v # NULL /\ v # 0
\* A timestamptz column arrives as a Date object, a numeric column as a
\* string such as "5.00": both are truthy unless the column is null.
TruthyObj(v) == v # NULL
\* userId: undefined, null and "" are falsy.
TruthyUser(u) == u # NoUser

ErrNotFound == "Code promo invalide"
ErrNotYetActive == "Code promo pas encore actif"
ErrExpired == "Code promo expire"
ErrExhausted == "Code promo epuise"
ErrBelowMinimum == "Montant minimum requis"
ErrPerUser == "Limite atteinte pour ce code"
ErrStorage == "storage error"
CheckErrors == {ErrNotFound, ErrNotYetActive, ErrExpired, ErrExhausted,
                ErrBelowMinimum, ErrPerUser}

\* ------------------------------------------------------------------ state
VARIABLES
  coupons,    \* the coupons table: [CouponIds -> row]
  usages,     \* the coupon_usage table: a set of rows
  clock,      \* the wall clock read by `new Date()`
  pc,         \* each redemption's position
  call,       \* each redemption's arguments and locals
  vres,       \* what validateCoupon gave its caller
  rlog,       \* recordCouponUsage: statements issued and applied, outcome
  promotions, \* the promotions table: [PromoIds -> row]
  cart,       \* the cart items a caller supplies: a sequence of line items
  pres,       \* what applyPromotions gave its caller
  plist,      \* what getActivePromotions gave its caller
  admin       \* each admin request: its arguments, position and outcome

vars == <<coupons, usages, clock, pc, call, vres, rlog, promotions, cart, pres, plist,
          admin>>

\* ------------------------------------------------------------ coupon rows
NoError == ""

\* A row of the coupons table (the columns validateCoupon reads).
CouponRow(id, code, active, vf, vt, ul, uc, mp, md, lpu, dt, dv) ==
  [id |-> id, code |-> code, isActive |-> active,
   validFrom |-> vf, validTo |-> vt,
   usageLimit |-> ul, usageCount |-> uc,
   minPurchaseAmount |-> mp, maxDiscountAmount |-> md,
   usageLimitPerUser |-> lpu, discountType |-> dt, discountValue |-> dv]

\* The local `coupon` before the lookup has run, or when it found nothing.
NoRow == CouponRow("none", "", FALSE, NULL, NULL, NULL, 0, NULL, NULL, NULL, "", 0)

DiscountTypes == {"percentage", "fixed_amount", "free_shipping"}

\* A row of coupon_usage.
UsageRow(c, u, o, d) ==
  [couponId |-> c, userId |-> u, orderId |-> o, discountAmount |-> d]

\* ------------------------------------------------- validateCoupon, by step
\* Step 1: the rows the lookup query returns for a code.
LookupRows(code) ==
  {coupons[c] : c \in {d \in DOMAIN coupons :
      Upper(coupons[d].code) = Upper(code) /\ coupons[d].isActive}}

\* Mutant: the boundary instants are rejected.
TemporalErrorStrict(coupon, now) ==
  IF TruthyObj(coupon.validFrom) /\ coupon.validFrom >= now THEN ErrNotYetActive
  ELSE IF TruthyObj(coupon.validTo) /\ coupon.validTo <= now THEN ErrExpired
  ELSE NoError

\* Mutant: the expiry is tested before the start of the window.
TemporalErrorExpiryFirst(coupon, now) ==
  IF TruthyObj(coupon.validTo) /\ coupon.validTo < now THEN ErrExpired
  ELSE IF TruthyObj(coupon.validFrom) /\ coupon.validFrom > now THEN ErrNotYetActive
  ELSE NoError

\* Step 2: the temporal check.
TemporalError(coupon, now) ==
  IF TruthyObj(coupon.validFrom) /\ coupon.validFrom > now THEN ErrNotYetActive
  ELSE IF TruthyObj(coupon.validTo) /\ coupon.validTo < now THEN ErrExpired
  ELSE NoError

\* Mutant: the limit is compared with > instead of >=.
ExhaustedErrorOffByOne(coupon) ==
  IF TruthyInt(coupon.usageLimit) /\ coupon.usageCount > coupon.usageLimit
  THEN ErrExhausted ELSE NoError

\* Mutant: the global limit is not checked.
ExhaustedErrorSkipped(coupon) == NoError

\* Step 3: the global usage limit.
ExhaustedError(coupon) ==
  IF TruthyInt(coupon.usageLimit) /\ coupon.usageCount >= coupon.usageLimit
  THEN ErrExhausted ELSE NoError

\* Step 4: the minimum purchase.
MinimumError(coupon, cartTotal) ==
  IF TruthyObj(coupon.minPurchaseAmount) /\ cartTotal < coupon.minPurchaseAmount
  THEN ErrBelowMinimum ELSE NoError

\* Mutant: the minimum purchase is checked before the window and the limit.
ChecksAfterLookupMinimumFirst(coupon, now, cartTotal) ==
  IF coupon = NoRow THEN ErrNotFound
  ELSE IF MinimumError(coupon, cartTotal) # NoError THEN MinimumError(coupon, cartTotal)
  ELSE IF TemporalError(coupon, now) # NoError THEN TemporalError(coupon, now)
  ELSE ExhaustedError(coupon)

\* Steps 1 to 4 in the order of the code: the first error thrown, if any.
ChecksAfterLookup(coupon, now, cartTotal) ==
  IF coupon = NoRow THEN ErrNotFound
  ELSE IF TemporalError(coupon, now) # NoError THEN TemporalError(coupon, now)
  ELSE IF ExhaustedError(coupon) # NoError THEN ExhaustedError(coupon)
  ELSE MinimumError(coupon, cartTotal)

\* Step 5 runs the count query only for an identified user and a set limit.
NeedsUserCount(coupon, userId) ==
  TruthyUser(userId) /\ TruthyInt(coupon.usageLimitPerUser)

UserUsageCount(couponId, userId) ==
  Cardinality({u \in usages : u.couponId = couponId /\ u.userId = userId})

\* Mutant: the per-user limit is compared with > instead of >=.
PerUserErrorOffByOne(coupon, userUsageCount) ==
  IF userUsageCount > coupon.usageLimitPerUser THEN ErrPerUser ELSE NoError

PerUserError(coupon, userUsageCount) ==
  IF userUsageCount >= coupon.usageLimitPerUser THEN ErrPerUser ELSE NoError

Min(a, b) == IF a < b THEN a ELSE b

\* Number.prototype.toFixed(2) of an amount held in hundredths of a cent:
\* the amount in cents, rounded half up.
ToFixed2(x) == (x + 50) \div 100

\* Mutant: the percentage discount ignores max_discount_amount.
RawDiscountUncapped(coupon, cartTotal) ==
  IF coupon.discountType = "percentage" THEN cartTotal * coupon.discountValue
  ELSE IF coupon.discountType = "fixed_amount"
  THEN Min(coupon.discountValue, cartTotal) * 100
  ELSE 0

\* Mutant: the fixed amount is not limited to the cart total.
RawDiscountFixedFull(coupon, cartTotal) ==
  IF coupon.discountType = "percentage"
  THEN IF TruthyObj(coupon.maxDiscountAmount)
       THEN Min(cartTotal * coupon.discountValue, coupon.maxDiscountAmount * 100)
       ELSE cartTotal * coupon.discountValue
  ELSE IF coupon.discountType = "fixed_amount" THEN coupon.discountValue * 100
  ELSE 0

\* Mutant: a free_shipping coupon also discounts its discount_value.
RawDiscountShippingValue(coupon, cartTotal) ==
  IF coupon.discountType = "percentage"
  THEN IF TruthyObj(coupon.maxDiscountAmount)
       THEN Min(cartTotal * coupon.discountValue, coupon.maxDiscountAmount * 100)
       ELSE cartTotal * coupon.discountValue
  ELSE IF coupon.discountType = "fixed_amount"
  THEN Min(coupon.discountValue, cartTotal) * 100
  ELSE Min(coupon.discountValue, cartTotal) * 100

\* Step 6: the discount, in hundredths of a cent before toFixed(2).
\* discountValue is a percentage or an amount in cents, by discountType.
RawDiscount(coupon, cartTotal) ==
  IF coupon.discountType = "percentage"
  THEN IF TruthyObj(coupon.maxDiscountAmount)
       THEN Min(cartTotal * coupon.discountValue, coupon.maxDiscountAmount * 100)
       ELSE cartTotal * coupon.discountValue
  ELSE IF coupon.discountType = "fixed_amount"
  THEN Min(coupon.discountValue, cartTotal) * 100
  ELSE 0

\* What validateCoupon hands its caller.
NoResult ==
  [kind |-> "none", valid |-> FALSE, error |-> NoError, couponId |-> "none",
   discountAmount |-> 0, freeShipping |-> FALSE]

ValidResult(coupon, cartTotal) ==
  [kind |-> "return", valid |-> TRUE, error |-> NoError, couponId |-> coupon.id,
   discountAmount |-> ToFixed2(RawDiscount(coupon, cartTotal)),
   freeShipping |-> (coupon.discountType = "free_shipping")]

\* Mutant: a storage error is rethrown instead of returned.
CatchValidateRethrow(message) ==
  [kind |-> IF message = ErrStorage THEN "throw" ELSE "return",
   valid |-> FALSE, error |-> message, couponId |-> "none",
   discountAmount |-> 0, freeShipping |-> FALSE]

\* The catch block: every error thrown in the try becomes a returned value.
CatchValidate(message) ==
  [kind |-> "return", valid |-> FALSE, error |-> message, couponId |-> "none",
   discountAmount |-> 0, freeShipping |-> FALSE]

\* ------------------------------------------------------------ redemptions
\* A redemption: validateCoupon and, when it returned valid, recordCouponUsage
\* for the order (the order id is the redemption's own number).
NoCall ==
  [code |-> "", userId |-> NoUser, cartTotal |-> 0, now |-> 0,
   coupon |-> NoRow, userUsageCount |-> NULL, failed |-> "none"]

NoLog == [updates |-> 0, inserts |-> 0, updated |-> 0, inserted |-> 0,
          outcome |-> "none"]

CartTotals == {100, 200}

\* The arguments of a call, before it is made.
Request(code, userId, cartTotal) ==
  [NoCall EXCEPT !.code = code, !.userId = userId, !.cartTotal = cartTotal]

\* validateCoupon is entered: `now` is read before the first query.
StartRedemption(p) ==
  /\ pc[p] = "idle"
  /\ call' = [call EXCEPT ![p].now = clock]
  /\ pc' = [pc EXCEPT ![p] = "lookup"]
  /\ UNCHANGED <<coupons, usages, clock, vres, rlog, promotions, cart, pres, plist, admin>>

\* The lookup query and the synchronous checks up to the next await.
ValidateLookup(p) ==
  /\ pc[p] = "lookup"
  /\ \/ \* the query fails
        /\ vres' = [vres EXCEPT ![p] = CatchValidate(ErrStorage)]
        /\ call' = [call EXCEPT ![p].failed = "lookup"]
        /\ pc' = [pc EXCEPT ![p] = "rejected"]
     \/ \* the query answers; rows[0] is any of the matching rows
        \E coupon \in (IF LookupRows(call[p].code) = {} THEN {NoRow}
                       ELSE LookupRows(call[p].code)) :
          LET err == ChecksAfterLookup(coupon, call[p].now, call[p].cartTotal) IN
          /\ call' = [call EXCEPT ![p].coupon = coupon]
          /\ IF err # NoError
             THEN /\ vres' = [vres EXCEPT ![p] = CatchValidate(err)]
                  /\ pc' = [pc EXCEPT ![p] = "rejected"]
             ELSE IF NeedsUserCount(coupon, call[p].userId)
             THEN /\ pc' = [pc EXCEPT ![p] = "count"]
                  /\ UNCHANGED vres
             ELSE /\ vres' = [vres EXCEPT ![p] =
                                ValidResult(coupon, call[p].cartTotal)]
                  /\ pc' = [pc EXCEPT ![p] = "validated"]
  /\ UNCHANGED <<coupons, usages, clock, rlog, promotions, cart, pres, plist, admin>>

\* Mutant: a valid answer reserves the use by incrementing usage_count.
ValidateCountReserving(p) ==
  /\ pc[p] = "count"
  /\ \/ /\ vres' = [vres EXCEPT ![p] = CatchValidate(ErrStorage)]
        /\ call' = [call EXCEPT ![p].failed = "count"]
        /\ pc' = [pc EXCEPT ![p] = "rejected"]
        /\ UNCHANGED coupons
     \/ LET n == UserUsageCount(call[p].coupon.id, call[p].userId)
            err == PerUserError(call[p].coupon, n) IN
        /\ call' = [call EXCEPT ![p].userUsageCount = n]
        /\ IF err # NoError
           THEN /\ vres' = [vres EXCEPT ![p] = CatchValidate(err)]
                /\ pc' = [pc EXCEPT ![p] = "rejected"]
                /\ UNCHANGED coupons
           ELSE /\ vres' = [vres EXCEPT ![p] =
                              ValidResult(call[p].coupon, call[p].cartTotal)]
                /\ pc' = [pc EXCEPT ![p] = "validated"]
                /\ coupons' = [coupons EXCEPT ![call[p].coupon.id].usageCount = @ + 1]
  /\ UNCHANGED <<usages, clock, rlog, promotions, cart, pres, plist, admin>>

\* The per-user count query, the per-user check, the discount and the return.
ValidateCount(p) ==
  /\ pc[p] = "count"
  /\ \/ \* the query fails
        /\ vres' = [vres EXCEPT ![p] = CatchValidate(ErrStorage)]
        /\ call' = [call EXCEPT ![p].failed = "count"]
        /\ pc' = [pc EXCEPT ![p] = "rejected"]
     \/ LET n == UserUsageCount(call[p].coupon.id, call[p].userId)
            err == PerUserError(call[p].coupon, n) IN
        /\ call' = [call EXCEPT ![p].userUsageCount = n]
        /\ IF err # NoError
           THEN /\ vres' = [vres EXCEPT ![p] = CatchValidate(err)]
                /\ pc' = [pc EXCEPT ![p] = "rejected"]
           ELSE /\ vres' = [vres EXCEPT ![p] =
                              ValidResult(call[p].coupon, call[p].cartTotal)]
                /\ pc' = [pc EXCEPT ![p] = "validated"]
  /\ UNCHANGED <<coupons, usages, clock, rlog, promotions, cart, pres, plist, admin>>

\* Mutant: the catch block goes back to the statement that failed.
RecordCatchRetry(stage) == stage

\* recordCouponUsage's catch block logs and rethrows: the call ends, raised.
RecordCatch(stage) == "threw"

\* Mutant: the counter is recomputed from the usage rows written so far.
IncrementUsageFromRows(couponId) ==
  [c \in DOMAIN coupons |->
     IF c = couponId /\ coupons[c] # NoRow
     THEN [coupons[c] EXCEPT !.usageCount =
             Cardinality({u \in usages : u.couponId = couponId}) + 1]
     ELSE coupons[c]]

\* UPDATE coupons SET usage_count = usage_count + 1 WHERE id = $1
\* (no row is touched when the coupon is not stored).
IncrementUsage(couponId) ==
  [c \in DOMAIN coupons |->
     IF c = couponId /\ coupons[c] # NoRow
     THEN [coupons[c] EXCEPT !.usageCount = coupons[c].usageCount + 1]
     ELSE coupons[c]]

\* recordCouponUsage, first statement: the increment, in its own transaction.
RecordUpdate(p) ==
  /\ pc[p] = "validated"
  /\ \/ \* the statement fails: nothing is written
        /\ rlog' = [rlog EXCEPT ![p].updates = @ + 1, ![p].outcome = "throw"]
        /\ pc' = [pc EXCEPT ![p] = RecordCatch("validated")]
        /\ UNCHANGED coupons
     \/ /\ coupons' = IncrementUsage(vres[p].couponId)
        /\ rlog' = [rlog EXCEPT ![p].updates = @ + 1, ![p].updated = @ + 1]
        /\ pc' = [pc EXCEPT ![p] = "insert"]
  /\ UNCHANGED <<usages, clock, call, vres, promotions, cart, pres, plist, admin>>

\* recordCouponUsage, second statement: the usage row, in its own transaction.
\* coupon_usage.coupon_id references coupons.id: the row is only accepted
\* while the coupon is stored.
RecordInsert(p) ==
  /\ pc[p] = "insert"
  /\ \/ \* the statement fails: no row is written, the increment stays
        /\ rlog' = [rlog EXCEPT ![p].inserts = @ + 1, ![p].outcome = "throw"]
        /\ pc' = [pc EXCEPT ![p] = RecordCatch("insert")]
        /\ UNCHANGED usages
     \/ /\ coupons[vres[p].couponId] # NoRow
        /\ usages' = usages \cup
             {UsageRow(vres[p].couponId, call[p].userId, p, vres[p].discountAmount)}
        /\ rlog' = [rlog EXCEPT ![p].inserts = @ + 1, ![p].inserted = @ + 1,
                                ![p].outcome = "success"]
        /\ pc' = [pc EXCEPT ![p] = "recorded"]
  /\ UNCHANGED <<coupons, clock, call, vres, promotions, cart, pres, plist, admin>>

\* Time passes.
Tick ==
  /\ clock + 1 \in Times
  /\ clock' = clock + 1
  /\ UNCHANGED <<coupons, usages, pc, call, vres, rlog, promotions, cart, pres, plist, admin>>

\* ------------------------------------------------------------- promotions
PromoIds == {"p1", "p2"}
NoId == "none"

\* The rules payload; a key the payload lacks is NoId or NULL.
Rules(categoryId, productId, buyQuantity, getQuantity, minAmount) ==
  [categoryId |-> categoryId, productId |-> productId,
   buyQuantity |-> buyQuantity, getQuantity |-> getQuantity,
   minAmount |-> minAmount]

\* `promo.rules || {}` of a null payload.
NoRules == Rules(NoId, NoId, NULL, NULL, NULL)

\* A row of the promotions table; updated_at starts at the instant 0 of
\* the row's creation.
PromoRow(id, type, dt, dv, rules, priority, startsAt, endsAt, active) ==
  [id |-> id, type |-> type, discountType |-> dt, discountValue |-> dv,
   rules |-> rules, priority |-> priority,
   startsAt |-> startsAt, endsAt |-> endsAt, isActive |-> active,
   updatedAt |-> 0]

LineItem(productId, categoryId, price, quantity) ==
  [productId |-> productId, categoryId |-> categoryId,
   price |-> price, quantity |-> quantity]

\* cartItems.reduce((sum, item) => sum + item.price * item.quantity, 0)
RECURSIVE Subtotal(_)
Subtotal(items) ==
  IF items = <<>> THEN 0
  ELSE Head(items).price * Head(items).quantity + Subtotal(Tail(items))

\* Mutant: the filter keeps every item.
ItemsOfCategoryAll(items, categoryId) == items

\* cartItems.filter(item => item.categoryId === categoryId)
ItemsOfCategory(items, categoryId) ==
  SelectSeq(items, LAMBDA it : it.categoryId = categoryId)

\* cartItems.find(item => item.productId === productId): <<item>> or <<>>
FindProduct(items, productId) ==
  LET found == SelectSeq(items, LAMBDA it : it.productId = productId)
  IN IF found = <<>> THEN <<>> ELSE <<Head(found)>>

\* Percentage or fixed discount on a base, in hundredths of a cent.  A null
\* discount_value parses to NaN, which like 0 fails `discount > 0`.
OnBase(promo, base, capped) ==
  IF promo.discountValue = NULL THEN 0
  ELSE IF promo.discountType = "percentage" THEN base * promo.discountValue
  ELSE IF promo.discountType = "fixed"
  THEN (IF capped THEN Min(promo.discountValue, base) ELSE promo.discountValue) * 100
  ELSE 0

\* Mutant: a promotion whose payload lacks any field of its type gives 0.
PromoDiscountRequiringRules(promo, items) ==
  LET cartTotal == Subtotal(items)
      rules == promo.rules
  IN
  CASE promo.type = "category_discount" ->
         IF rules.categoryId = NoId THEN 0
         ELSE OnBase(promo, Subtotal(ItemsOfCategory(items, rules.categoryId)), TRUE)
    [] promo.type = "buy_x_get_y" ->
         LET matching == FindProduct(items, rules.productId)
         IN IF rules.productId = NoId \/ ~TruthyInt(rules.buyQuantity)
               \/ ~TruthyInt(rules.getQuantity) THEN 0
            ELSE IF matching = <<>> THEN 0
            ELSE matching[1].price
                   * ((matching[1].quantity \div rules.buyQuantity)
                      * rules.getQuantity) * 100
    [] promo.type = "flash_sale" -> OnBase(promo, cartTotal, TRUE)
    [] promo.type = "min_purchase" ->
         IF ~TruthyInt(rules.minAmount) \/ cartTotal < rules.minAmount THEN 0
         ELSE OnBase(promo, cartTotal, FALSE)
    [] OTHER -> 0

\* Mutant: free items are credited in proportion, without whole sets.
PromoDiscountPartialCredit(promo, items) ==
  LET cartTotal == Subtotal(items)
      rules == promo.rules
  IN
  CASE promo.type = "category_discount" ->
         IF rules.categoryId = NoId THEN 0
         ELSE OnBase(promo, Subtotal(ItemsOfCategory(items, rules.categoryId)), TRUE)
    [] promo.type = "buy_x_get_y" ->
         LET buyQuantity == IF TruthyInt(rules.buyQuantity) THEN rules.buyQuantity ELSE 2
             getQuantity == IF TruthyInt(rules.getQuantity) THEN rules.getQuantity ELSE 1
             matching == FindProduct(items, rules.productId)
         IN IF rules.productId = NoId THEN 0
            ELSE IF matching = <<>> THEN 0
            ELSE matching[1].price
                   * ((matching[1].quantity * getQuantity) \div buyQuantity) * 100
    [] promo.type = "flash_sale" -> OnBase(promo, cartTotal, TRUE)
    [] promo.type = "min_purchase" ->
         LET minAmount == IF TruthyInt(rules.minAmount) THEN rules.minAmount ELSE 0
         IN IF cartTotal < minAmount THEN 0 ELSE OnBase(promo, cartTotal, FALSE)
    [] OTHER -> 0

\* Mutant: a subtotal equal to minAmount does not qualify.
PromoDiscountAboveThreshold(promo, items) ==
  LET cartTotal == Subtotal(items)
      rules == promo.rules
  IN
  CASE promo.type = "category_discount" ->
         IF rules.categoryId = NoId THEN 0
         ELSE OnBase(promo, Subtotal(ItemsOfCategory(items, rules.categoryId)), TRUE)
    [] promo.type = "buy_x_get_y" ->
         LET buyQuantity == IF TruthyInt(rules.buyQuantity) THEN rules.buyQuantity ELSE 2
             getQuantity == IF TruthyInt(rules.getQuantity) THEN rules.getQuantity ELSE 1
             matching == FindProduct(items, rules.productId)
         IN IF rules.productId = NoId THEN 0
            ELSE IF matching = <<>> THEN 0
            ELSE matching[1].price
                   * ((matching[1].quantity \div buyQuantity) * getQuantity) * 100
    [] promo.type = "flash_sale" -> OnBase(promo, cartTotal, TRUE)
    [] promo.type = "min_purchase" ->
         LET minAmount == IF TruthyInt(rules.minAmount) THEN rules.minAmount ELSE 0
         IN IF cartTotal <= minAmount THEN 0 ELSE OnBase(promo, cartTotal, FALSE)
    [] OTHER -> 0

\* calculatePromoDiscount, in hundredths of a cent.
PromoDiscount(promo, items) ==
  LET cartTotal == Subtotal(items)
      rules == promo.rules
  IN
  CASE promo.type = "category_discount" ->
         IF rules.categoryId = NoId THEN 0
         ELSE OnBase(promo, Subtotal(ItemsOfCategory(items, rules.categoryId)), TRUE)
    [] promo.type = "buy_x_get_y" ->
         LET buyQuantity == IF TruthyInt(rules.buyQuantity) THEN rules.buyQuantity ELSE 2
             getQuantity == IF TruthyInt(rules.getQuantity) THEN rules.getQuantity ELSE 1
             matching == FindProduct(items, rules.productId)
         IN IF rules.productId = NoId THEN 0
            ELSE IF matching = <<>> THEN 0
            ELSE matching[1].price
                   * ((matching[1].quantity \div buyQuantity) * getQuantity) * 100
    [] promo.type = "flash_sale" -> OnBase(promo, cartTotal, TRUE)
    [] promo.type = "min_purchase" ->
         LET minAmount == IF TruthyInt(rules.minAmount) THEN rules.minAmount ELSE 0
         IN IF cartTotal < minAmount THEN 0 ELSE OnBase(promo, cartTotal, FALSE)
    [] OTHER -> 0

\* Mutant: the end of the window is exclusive.
ActivePromosEndExclusive(now) ==
  {id \in PromoIds :
     /\ promotions[id].isActive
     /\ (promotions[id].startsAt = NULL \/ promotions[id].startsAt <= now)
     /\ (promotions[id].endsAt = NULL \/ promotions[id].endsAt > now)}

\* The WHERE clause of the promotions query.
ActivePromos(now) ==
  {id \in PromoIds :
     /\ promotions[id].isActive
     /\ (promotions[id].startsAt = NULL \/ promotions[id].startsAt <= now)
     /\ (promotions[id].endsAt = NULL \/ promotions[id].endsAt >= now)}

\* ORDER BY priority DESC: the orders the query may return a set of rows in.
ByPriority(ids) ==
  {order \in [1..Cardinality(ids) -> ids] :
     /\ \A i, j \in DOMAIN order : i # j => order[i] # order[j]
     /\ \A i, j \in DOMAIN order :
          i < j => promotions[order[i]].priority >= promotions[order[j]].priority}

\* Mutant: the loop stops at the first promotion that gives a discount.
RECURSIVE AppliedFirstMatch(_, _)
AppliedFirstMatch(order, items) ==
  IF order = <<>> THEN <<>>
  ELSE LET promo == promotions[Head(order)]
           discount == PromoDiscount(promo, items)
       IN IF discount > 0
          THEN <<[id |-> promo.id, type |-> promo.type, discount |-> discount]>>
          ELSE AppliedFirstMatch(Tail(order), items)

\* Mutant: each promotion is applied to what the earlier ones left of the
\* subtotal (remaining, in hundredths of a cent).
RECURSIVE AppliedOnRemaining(_, _, _)
AppliedOnRemaining(order, items, remaining) ==
  IF order = <<>> THEN <<>>
  ELSE LET promo == promotions[Head(order)]
           full == PromoDiscount(promo, items)
           discount == IF Subtotal(items) = 0 THEN full
                       ELSE (full * remaining) \div (Subtotal(items) * 100)
       IN (IF discount > 0
           THEN <<[id |-> promo.id, type |-> promo.type, discount |-> discount]>>
           ELSE <<>>)
          \o AppliedOnRemaining(Tail(order), items,
                                IF discount > 0 THEN remaining - discount ELSE remaining)

AppliedCompounding(order, items) ==
  AppliedOnRemaining(order, items, Subtotal(items) * 100)

\* Mutant: every non-zero discount is listed and added.
RECURSIVE AppliedNonZero(_, _)
AppliedNonZero(order, items) ==
  IF order = <<>> THEN <<>>
  ELSE LET promo == promotions[Head(order)]
           discount == PromoDiscount(promo, items)
       IN (IF discount # 0
           THEN <<[id |-> promo.id, type |-> promo.type, discount |-> discount]>>
           ELSE <<>>) \o AppliedNonZero(Tail(order), items)

\* The loop of applyPromotions over rows in the order given.
RECURSIVE Applied(_, _)
Applied(order, items) ==
  IF order = <<>> THEN <<>>
  ELSE LET promo == promotions[Head(order)]
           discount == PromoDiscount(promo, items)
       IN (IF discount > 0
           THEN <<[id |-> promo.id, type |-> promo.type, discount |-> discount]>>
           ELSE <<>>) \o Applied(Tail(order), items)

RECURSIVE SumDiscounts(_)
SumDiscounts(applied) ==
  IF applied = <<>> THEN 0 ELSE Head(applied).discount + SumDiscounts(Tail(applied))

NoPromoResult ==
  [kind |-> "none", now |-> 0, totalDiscount |-> 0, fixed2 |-> FALSE,
   appliedPromotions |-> <<>>]

\* A cart entry that is null: reading its price raises a TypeError.
NullItem == LineItem(NoId, NoId, NULL, NULL)

\* calculatePromoDiscount raises on these items, whatever the promotion.
Raises(items) == \E i \in DOMAIN items : items[i] = NullItem

\* Mutant: the catch block of applyPromotions rethrows.
CatchApplyRethrow(now) ==
  [kind |-> "throw", now |-> now, totalDiscount |-> 0, fixed2 |-> FALSE,
   appliedPromotions |-> <<>>]

\* The catch block of applyPromotions: the fallback, totalDiscount the
\* number 0 and no promotion applied.
CatchApply(now) ==
  [kind |-> "return", now |-> now, totalDiscount |-> 0, fixed2 |-> FALSE,
   appliedPromotions |-> <<>>]

\* applyPromotions: the query, the loop and the return.  A failing query,
\* or an error raised while a row is evaluated, ends in the catch block.
ApplyPromotions ==
  /\ \/ pres' = CatchApply(clock)
     \/ \E order \in ByPriority(ActivePromos(clock)) :
          IF order # <<>> /\ Raises(cart)
          THEN pres' = CatchApply(clock)
          ELSE LET applied == Applied(order, cart) IN
               pres' = [kind |-> "return", now |-> clock,
                        totalDiscount |-> ToFixed2(SumDiscounts(applied)),
                        fixed2 |-> TRUE, appliedPromotions |-> applied]
  /\ UNCHANGED <<coupons, usages, clock, pc, call, vres, rlog, promotions, cart, plist,
                 admin>>

\* created_at of the stored promotions: p1 was inserted before p2.
CreatedAt(id) == IF id = "p1" THEN 0 ELSE 1

\* ORDER BY priority DESC, created_at DESC
ByPriorityThenNewest(ids) ==
  {order \in ByPriority(ids) :
     \A i, j \in DOMAIN order :
       i < j /\ promotions[order[i]].priority = promotions[order[j]].priority
         => CreatedAt(order[i]) >= CreatedAt(order[j])}

\* What getActivePromotions gave its caller; `failed` remembers whether the
\* empty list came from the catch block.
NoList == [kind |-> "none", now |-> 0, failed |-> FALSE, rows |-> <<>>]

\* getActivePromotions: the rows of the query, or [] when it fails.
GetActivePromotions ==
  /\ \/ plist' = [kind |-> "return", now |-> clock, failed |-> TRUE, rows |-> <<>>]
     \/ \E order \in ByPriorityThenNewest(ActivePromos(clock)) :
          plist' = [kind |-> "return", now |-> clock, failed |-> FALSE,
                    rows |-> order]
  /\ UNCHANGED <<coupons, usages, clock, pc, call, vres, rlog, promotions, cart, pres,
                 admin>>

\* ------------------------------------------- the route POST /validate
\* The messages of the route's own checks.
RteNotYetActive == "Ce code n'est pas encore actif"
RteExpired == "Ce code a expire"
RteExhausted == "Ce code a atteint sa limite d'utilisation"
RtePerUser == "Vous avez deja utilise ce code le nombre maximum de fois"
RteInvalidData == "Donnees invalides"

\* validateCouponSchema: cartTotal is z.number().positive().
RouteSchemaError(request) ==
  IF request.cartTotal <= 0 THEN RteInvalidData ELSE NoError

\* The checks that follow the lookup, up to the next await.
RouteChecksAfterLookup(coupon, now) ==
  IF coupon = NoRow THEN ErrNotFound
  ELSE IF TruthyObj(coupon.validFrom) /\ coupon.validFrom > now THEN RteNotYetActive
  ELSE IF TruthyObj(coupon.validTo) /\ coupon.validTo < now THEN RteExpired
  ELSE IF TruthyInt(coupon.usageLimit) /\ coupon.usageCount >= coupon.usageLimit
  THEN RteExhausted
  ELSE NoError

RoutePerUserError(coupon, userUsageCount) ==
  IF userUsageCount >= coupon.usageLimitPerUser THEN RtePerUser ELSE NoError

RouteMinimumError(coupon, cartTotal) ==
  IF TruthyObj(coupon.minPurchaseAmount) /\ cartTotal < coupon.minPurchaseAmount
  THEN ErrBelowMinimum ELSE NoError

\* The discount, in hundredths of a cent: a type that is neither percentage
\* nor fixed_amount leaves the initial 0.
RouteRawDiscount(coupon, cartTotal) ==
  IF coupon.discountType = "percentage"
  THEN IF TruthyObj(coupon.maxDiscountAmount)
       THEN Min(cartTotal * coupon.discountValue, coupon.maxDiscountAmount * 100)
       ELSE cartTotal * coupon.discountValue
  ELSE IF coupon.discountType = "fixed_amount"
  THEN Min(coupon.discountValue, cartTotal) * 100
  ELSE 0

\* res.status(...).json({ success: false, message })
RouteReject(message) ==
  [kind |-> IF message = ErrNotFound THEN "http404" ELSE "http400",
   valid |-> FALSE, error |-> message, couponId |-> "none",
   discountAmount |-> 0, freeShipping |-> FALSE]

\* res.json({ success: true, coupon: { ..., discountAmount } })
RouteAccept(coupon, cartTotal) ==
  [kind |-> "http200", valid |-> TRUE, error |-> NoError, couponId |-> coupon.id,
   discountAmount |-> ToFixed2(RouteRawDiscount(coupon, cartTotal)),
   freeShipping |-> FALSE]

\* The catch block: an error that is not a ZodError goes to next(error).
RouteCatch(message) ==
  [kind |-> "next", valid |-> FALSE, error |-> message, couponId |-> "none",
   discountAmount |-> 0, freeShipping |-> FALSE]

\* The minimum purchase check and the answer: the end of the handler.
RouteFinish(coupon, cartTotal) ==
  IF RouteMinimumError(coupon, cartTotal) # NoError
  THEN RouteReject(RouteMinimumError(coupon, cartTotal))
  ELSE RouteAccept(coupon, cartTotal)

\* The handler up to its second await: the schema, the lookup query, `now`
\* (read after the lookup), the window and the global limit.
RouteValidate(p) ==
  /\ pc[p] = "idle"
  /\ IF RouteSchemaError(call[p]) # NoError
     THEN /\ vres' = [vres EXCEPT ![p] = RouteReject(RouteSchemaError(call[p]))]
          /\ pc' = [pc EXCEPT ![p] = "answered"]
          /\ UNCHANGED call
     ELSE \/ \* the query fails
             /\ vres' = [vres EXCEPT ![p] = RouteCatch(ErrStorage)]
             /\ call' = [call EXCEPT ![p].failed = "lookup"]
             /\ pc' = [pc EXCEPT ![p] = "answered"]
          \/ \E coupon \in (IF LookupRows(call[p].code) = {} THEN {NoRow}
                            ELSE LookupRows(call[p].code)) :
               LET err == RouteChecksAfterLookup(coupon, clock) IN
               /\ call' = [call EXCEPT ![p].coupon = coupon, ![p].now = clock]
               /\ IF err # NoError
                  THEN /\ vres' = [vres EXCEPT ![p] = RouteReject(err)]
                       /\ pc' = [pc EXCEPT ![p] = "answered"]
                  ELSE IF NeedsUserCount(coupon, call[p].userId)
                  THEN /\ pc' = [pc EXCEPT ![p] = "routeCount"]
                       /\ UNCHANGED vres
                  ELSE /\ vres' = [vres EXCEPT ![p] =
                                     RouteFinish(coupon, call[p].cartTotal)]
                       /\ pc' = [pc EXCEPT ![p] = "answered"]
  /\ UNCHANGED <<coupons, usages, clock, rlog, promotions, cart, pres, plist, admin>>

\* The per-user count query and check, then the rest of the handler.
RouteCount(p) ==
  /\ pc[p] = "routeCount"
  /\ \/ \* the query fails
        /\ vres' = [vres EXCEPT ![p] = RouteCatch(ErrStorage)]
        /\ call' = [call EXCEPT ![p].failed = "count"]
     \/ LET n == UserUsageCount(call[p].coupon.id, call[p].userId)
            err == RoutePerUserError(call[p].coupon, n) IN
        /\ call' = [call EXCEPT ![p].userUsageCount = n]
        /\ vres' = [vres EXCEPT ![p] =
             IF err # NoError THEN RouteReject(err)
             ELSE RouteFinish(call[p].coupon, call[p].cartTotal)]
  /\ pc' = [pc EXCEPT ![p] = "answered"]
  /\ UNCHANGED <<coupons, usages, clock, rlog, promotions, cart, pres, plist, admin>>

\* ---------------------------------------------------------- admin requests
\* An admin request: the operation, its position, the id it names, its
\* body, and how it ended.  A body lists the keys it holds (`keys`) and the
\* values of those that are not undefined (`values`).
Body(keys, values) == [keys |-> keys, values |-> values]
NoBody == Body({}, [k \in {} |-> 0])

NoAdmin == [op |-> "none", pc |-> "off", id |-> "none", body |-> NoBody,
            outcome |-> "none"]
NoAdmins == [p \in Procs |-> NoAdmin]

AdminRequest(op, id, body) ==
  [op |-> op, pc |-> "idle", id |-> id, body |-> body, outcome |-> "none"]

\* The columns an UPDATE built by updatePromotion can name once: updated_at
\* is already assigned by the statement itself.
PromoColumns ==
  {"id", "type", "discountType", "discountValue", "rules", "priority",
   "startsAt", "endsAt", "isActive"}

\* Mutant: the keys of a rules value are merged into the stored payload.
PatchPromoMergingRules(row, values, now) ==
  [f \in DOMAIN row |->
     IF f = "rules" /\ f \in DOMAIN values
     THEN Rules(IF values.rules.categoryId # NoId THEN values.rules.categoryId
                ELSE row.rules.categoryId,
                IF values.rules.productId # NoId THEN values.rules.productId
                ELSE row.rules.productId,
                IF values.rules.buyQuantity # NULL THEN values.rules.buyQuantity
                ELSE row.rules.buyQuantity,
                IF values.rules.getQuantity # NULL THEN values.rules.getQuantity
                ELSE row.rules.getQuantity,
                IF values.rules.minAmount # NULL THEN values.rules.minAmount
                ELSE row.rules.minAmount)
     ELSE IF f \in DOMAIN values THEN values[f]
     ELSE IF f = "updatedAt" THEN now
     ELSE row[f]]

\* UPDATE promotions SET <each defined key> = $n, updated_at = NOW()
PatchPromo(row, values, now) ==
  [f \in DOMAIN row |->
     IF f \in DOMAIN values THEN values[f]
     ELSE IF f = "updatedAt" THEN now
     ELSE row[f]]

\* updatePromotion: one statement, or an error thrown before or after it.
UpdatePromotion(p) ==
  /\ admin[p].op = "updatePromotion" /\ admin[p].pc = "idle"
  /\ LET id == admin[p].id
         values == admin[p].body.values
     IN
     IF DOMAIN values = {}
     THEN /\ admin' = [admin EXCEPT ![p].pc = "done",
                                    ![p].outcome = "No fields to update"]
          /\ UNCHANGED promotions
     ELSE \/ \* the statement fails; it always does when it names a column
             \* the table lacks or assigns updated_at twice
             /\ admin' = [admin EXCEPT ![p].pc = "done", ![p].outcome = ErrStorage]
             /\ UNCHANGED promotions
          \/ /\ DOMAIN values \subseteq PromoColumns
             /\ IF id \in DOMAIN promotions
                THEN /\ promotions' =
                          [promotions EXCEPT ![id] = PatchPromo(@, values, clock)]
                     /\ admin' = [admin EXCEPT ![p].pc = "done",
                                               ![p].outcome = "return"]
                ELSE /\ admin' = [admin EXCEPT ![p].pc = "done",
                                               ![p].outcome = "Promotion not found"]
                     /\ UNCHANGED promotions
  /\ UNCHANGED <<coupons, usages, clock, pc, call, vres, rlog, cart, pres, plist>>

\* ------------------------------------- the route DELETE /admin/:id
Stored(id) == id \in DOMAIN coupons /\ coupons[id] # NoRow

\* SELECT COUNT(*) FROM coupon_usage WHERE coupon_id = $1
UsageCountOf(id) == Cardinality({u \in usages : u.couponId = id})

\* DELETE FROM coupons WHERE id = $1: the foreign key of coupon_usage is
\* ON DELETE CASCADE, so the coupon's usage rows go with it.
CouponsWithout(id) == [c \in DOMAIN coupons |-> IF c = id THEN NoRow ELSE coupons[c]]
UsagesWithout(id) == {u \in usages : u.couponId # id}

\* The handler up to its second await: the count query and the refusal.
DeleteCount(p) ==
  /\ admin[p].op = "delete" /\ admin[p].pc = "idle"
  /\ \/ \* the query fails: next(error)
        admin' = [admin EXCEPT ![p].pc = "done", ![p].outcome = "next"]
     \/ IF UsageCountOf(admin[p].id) > 0
        THEN admin' = [admin EXCEPT ![p].pc = "done", ![p].outcome = "http400"]
        ELSE admin' = [admin EXCEPT ![p].pc = "delete"]
  /\ UNCHANGED <<coupons, usages, clock, pc, call, vres, rlog, promotions, cart,
                 pres, plist>>

\* The DELETE statement and the answer.
DeleteCoupon(p) ==
  /\ admin[p].op = "delete" /\ admin[p].pc = "delete"
  /\ \/ \* the statement fails: next(error)
        /\ admin' = [admin EXCEPT ![p].pc = "done", ![p].outcome = "next"]
        /\ UNCHANGED <<coupons, usages>>
     \/ IF Stored(admin[p].id)
        THEN /\ coupons' = CouponsWithout(admin[p].id)
             /\ usages' = UsagesWithout(admin[p].id)
             /\ admin' = [admin EXCEPT ![p].pc = "done", ![p].outcome = "http200"]
        ELSE /\ admin' = [admin EXCEPT ![p].pc = "done", ![p].outcome = "http404"]
             /\ UNCHANGED <<coupons, usages>>
  /\ UNCHANGED <<clock, pc, call, vres, rlog, promotions, cart, pres, plist>>

\* ------------------------- the routes POST /admin and PATCH /admin/:id
\* Mutant: the schema leaves the code as it was sent.
ParseCouponAsGiven(values) == values

\* createCouponSchema (and its partial()): the code is upper-cased.
ParseCoupon(values) ==
  [f \in DOMAIN values |-> IF f = "code" THEN Upper(values[f]) ELSE values[f]]

\* SELECT id FROM coupons WHERE code = $1
RowsWithCode(code) ==
  {c \in DOMAIN coupons : coupons[c] # NoRow /\ coupons[c].code = code}

\* The unique constraint on coupons.code accepts `code` for row `id`.
CodeAccepted(code, id) == RowsWithCode(code) \subseteq {id}

\* The row the INSERT writes: the columns default as the schema says.
CreatedCoupon(id, validated) ==
  CouponRow(id, validated.code, TRUE, NULL, NULL, NULL, 0, NULL, NULL, 1,
            "fixed_amount", 50)

\* UPDATE coupons SET <each defined key> = $n
PatchCoupon(row, validated) ==
  [f \in DOMAIN row |-> IF f \in DOMAIN validated THEN validated[f] ELSE row[f]]

\* POST /admin up to its second await: the schema, the uniqueness query.
CreateCheck(p) ==
  /\ admin[p].op = "create" /\ admin[p].pc = "idle"
  /\ \/ \* the query fails: next(error)
        admin' = [admin EXCEPT ![p].pc = "done", ![p].outcome = "next"]
     \/ IF RowsWithCode(ParseCoupon(admin[p].body.values).code) # {}
        THEN admin' = [admin EXCEPT ![p].pc = "done", ![p].outcome = "http400"]
        ELSE admin' = [admin EXCEPT ![p].pc = "insert"]
  /\ UNCHANGED <<coupons, usages, clock, pc, call, vres, rlog, promotions, cart,
                 pres, plist>>

\* POST /admin: the INSERT, under a fresh id, and the answer.
CreateInsert(p) ==
  /\ admin[p].op = "create" /\ admin[p].pc = "insert"
  /\ LET validated == ParseCoupon(admin[p].body.values) IN
     \/ \* the statement fails, as it must when the code is taken: next(error)
        /\ admin' = [admin EXCEPT ![p].pc = "done", ![p].outcome = "next"]
        /\ UNCHANGED coupons
     \/ /\ CodeAccepted(validated.code, "none")
        /\ \E id \in {c \in DOMAIN coupons : coupons[c] = NoRow} :
             /\ coupons' = [coupons EXCEPT ![id] = CreatedCoupon(id, validated)]
             /\ admin' = [admin EXCEPT ![p].pc = "done", ![p].id = id,
                                       ![p].outcome = "http201"]
  /\ UNCHANGED <<usages, clock, pc, call, vres, rlog, promotions, cart, pres, plist>>

\* PATCH /admin/:id up to its second await: the schema, the existence
\* query, the list of updates.
PatchCheck(p) ==
  /\ admin[p].op = "patch" /\ admin[p].pc = "idle"
  /\ \/ \* the query fails: next(error)
        admin' = [admin EXCEPT ![p].pc = "done", ![p].outcome = "next"]
     \/ IF ~Stored(admin[p].id)
        THEN admin' = [admin EXCEPT ![p].pc = "done", ![p].outcome = "http404"]
        ELSE IF DOMAIN ParseCoupon(admin[p].body.values) = {}
        THEN admin' = [admin EXCEPT ![p].pc = "done", ![p].outcome = "http400"]
        ELSE admin' = [admin EXCEPT ![p].pc = "update"]
  /\ UNCHANGED <<coupons, usages, clock, pc, call, vres, rlog, promotions, cart,
                 pres, plist>>

\* PATCH /admin/:id: the UPDATE and the answer.
PatchUpdate(p) ==
  /\ admin[p].op = "patch" /\ admin[p].pc = "update"
  /\ LET validated == ParseCoupon(admin[p].body.values) IN
     \/ \* the statement fails, as it must when the code is taken: next(error)
        /\ admin' = [admin EXCEPT ![p].pc = "done", ![p].outcome = "next"]
        /\ UNCHANGED coupons
     \/ /\ "code" \in DOMAIN validated => CodeAccepted(validated.code, admin[p].id)
        /\ coupons' = [c \in DOMAIN coupons |->
             IF c = admin[p].id /\ coupons[c] # NoRow
             THEN PatchCoupon(coupons[c], validated) ELSE coupons[c]]
        /\ admin' = [admin EXCEPT ![p].pc = "done", ![p].outcome = "http200"]
  /\ UNCHANGED <<usages, clock, pc, call, vres, rlog, promotions, cart, pres, plist>>

\* ------------------------------------------------------- specifications
\* Limits as the admin routes write them: absent, or a positive integer.
LimitsWritten == {NULL} \cup (1..MaxLimit)
\* Limits as the integer columns admit them.
LimitsStored == {NULL} \cup (0..MaxLimit)

\* Usage rows of earlier, completed redemptions of a coupon by a user.
PriorUsages(c, u, n) == {UsageRow(c, u, 100 + i, 50) : i \in 1..n}

\* The counts a coupon with limit ul holds after sequential redemptions.
CountsWithin(ul) == 0..(IF ul = NULL THEN MaxLimit ELSE ul)

\* Specifications about coupons alone: one flash sale is stored, the cart
\* holds one item, applyPromotions is not called and no admin request is made.
NoPromotionsInUse ==
  /\ promotions = [id \in PromoIds |->
       PromoRow(id, "flash_sale", "percentage", 10, NoRules, 0, NULL, NULL, TRUE)]
  /\ cart = <<LineItem("A", "C", 100, 1)>>
  /\ pres = NoPromoResult
  /\ plist = NoList
  /\ admin = NoAdmins

AllIdle == [p \in Procs |-> "idle"]
OnlyFirst == [p \in Procs |-> IF p = 1 THEN "idle" ELSE "off"]

\* The system after coupon c1 was created and redeemed uc times, one
\* redemption at a time, by customer u2: MaxProcs redemptions are about to run.
Init ==
  /\ \E ul \in LimitsWritten, lpu \in LimitsWritten :
       \E uc \in CountsWithin(ul) :
         /\ coupons = [c \in CouponIds |->
              CouponRow(c, "SAVE10", TRUE, NULL, NULL, ul, uc, NULL, NULL, lpu,
                        "fixed_amount", 50)]
         /\ usages = PriorUsages("c1", "u2", uc)
  /\ clock = 0
  /\ pc = AllIdle
  /\ call \in [Procs -> {Request("save10", u, 100) : u \in {NoUser, "u1"}}]
  /\ vres = [p \in Procs |-> NoResult]
  /\ rlog = [p \in Procs |-> NoLog]
  /\ NoPromotionsInUse

Redemption(p) ==
  \/ StartRedemption(p)
  \/ ValidateLookup(p)
  \/ ValidateCount(p)
  \/ RecordUpdate(p)
  \/ RecordInsert(p)

\* Redemptions run concurrently: any interleaving of their awaits.
Next == \E p \in Procs : Redemption(p)

Spec == Init /\ [][Next]_vars

\* Redemptions one at a time: one starts only when none is in progress.
Quiescent == \A q \in Procs : pc[q] \in {"idle", "off", "rejected", "recorded", "threw"}

NextSeq ==
  \E p \in Procs :
    \/ Quiescent /\ StartRedemption(p)
    \/ ValidateLookup(p)
    \/ ValidateCount(p)
    \/ RecordUpdate(p)
    \/ RecordInsert(p)

SpecSeq == Init /\ [][NextSeq]_vars

\* Per-user limits and earlier usage counts: both orders of a count against
\* a limit, equality, and the limits null and 0.
PerUserLimits == {NULL, 0, 1, 2}
PriorCounts == {0, 1, 2}

\* One call of validateCoupon (and the recording that follows a valid
\* answer) on any stored coupon, any request and any earlier usage, at
\* instant 1.  The table is read as stored, whoever wrote the row: a limit
\* column holds null or any integer >= 0.
InitCall ==
  /\ \E active \in BOOLEAN, vf \in {NULL} \cup Times, vt \in {NULL} \cup Times,
        ul \in LimitsStored, uc \in 0..MaxLimit, mp \in {NULL, 200},
        lpu \in PerUserLimits, dt \in DiscountTypes, n \in PriorCounts :
       /\ coupons = [c \in CouponIds |->
            CouponRow(c, "SAVE10", active, vf, vt, ul, uc, mp, NULL, lpu, dt, 10)]
       /\ usages = PriorUsages("c1", "u1", n)
  /\ clock = 1
  /\ pc = OnlyFirst
  /\ call \in [Procs -> {Request(code, u, t) :
                 code \in {"save10", "OTHER"}, u \in {NoUser, "u1"}, t \in CartTotals}]
  /\ \A p \in Procs : p # 1 => call[p] = Request("save10", NoUser, 100)
  /\ vres = [p \in Procs |-> NoResult]
  /\ rlog = [p \in Procs |-> NoLog]
  /\ NoPromotionsInUse

SpecValidate == InitCall /\ [][Next]_vars

\* One call of validateCoupon on a coupon that passes every check, for each
\* discount type: a value of 10, 15 or 200 (percent, or cents), with or
\* without a cap of 5.00, on carts of 0, 1.03 and 100.00.
DiscountValues == {10, 15, 200}
DiscountCaps == {NULL, 500}
DiscountCarts == {0, 103, 10000}

InitDiscount ==
  /\ \E dt \in DiscountTypes, dv \in DiscountValues, md \in DiscountCaps,
        lpu \in {NULL, 1} :
       coupons = [c \in CouponIds |->
         CouponRow(c, "SAVE10", TRUE, NULL, NULL, NULL, 0, NULL, md, lpu, dt, dv)]
  /\ usages = {}
  /\ clock = 1
  /\ pc = OnlyFirst
  /\ call \in [Procs -> {Request("SAVE10", u, t) :
                 u \in {NoUser, "u1"}, t \in DiscountCarts}]
  /\ \A p \in Procs : p # 1 => call[p] = Request("SAVE10", NoUser, 0)
  /\ vres = [p \in Procs |-> NoResult]
  /\ rlog = [p \in Procs |-> NoLog]
  /\ NoPromotionsInUse

SpecDiscount == InitDiscount /\ [][Next]_vars

\* A checkout: one redemption of coupon c1, applyPromotions on the cart,
\* and the clock, in any interleaving.
InitFrame ==
  /\ \E ul \in LimitsWritten, lpu \in LimitsWritten, vt \in {NULL, 1} :
       \E uc \in CountsWithin(ul) :
         /\ coupons = [c \in CouponIds |->
              CouponRow(c, "SAVE10", TRUE, NULL, vt, ul, uc, NULL, NULL, lpu,
                        "percentage", 10)]
         /\ usages = PriorUsages("c1", "u1", uc)
  /\ clock = 0
  /\ pc = OnlyFirst
  /\ call \in [Procs -> {Request("save10", u, 200) : u \in {NoUser, "u1"}}]
  /\ \A p \in Procs : p # 1 => call[p].userId = NoUser
  /\ vres = [p \in Procs |-> NoResult]
  /\ rlog = [p \in Procs |-> NoLog]
  /\ \E t \in {"category_discount", "buy_x_get_y", "min_purchase"},
        dt \in {"percentage", "fixed"} :
       promotions = [id \in PromoIds |->
         IF id = "p1"
         THEN PromoRow(id, "flash_sale", "percentage", 10, NoRules, 1, NULL, 1, TRUE)
         ELSE PromoRow(id, t, dt, 5, Rules("C", "A", 2, 1, 150), 0, 1, NULL, TRUE)]
  /\ cart \in {<<LineItem("A", "C", 100, q), LineItem("B", "D", 50, 1)>> : q \in {1, 2}}
  /\ pres = NoPromoResult
  /\ plist = NoList
  /\ admin = NoAdmins

NextFrame ==
  \/ \E p \in Procs : Redemption(p)
  \/ ApplyPromotions
  \/ Tick

SpecFrame == InitFrame /\ [][NextFrame]_vars

\* The promotion evaluator alone: two stored promotions, one cart, calls of
\* applyPromotions and getActivePromotions at any instant.
\*   p1  a flash sale, 10 percent or a fixed 5.00, of priority below, equal
\*       to or above p2's, active or not, open-ended or ending at instant 1;
\*   p2  a promotion of another type, 5 percent or a fixed 1.50, starting at
\*       once or at instant 1, whose rules payload is complete, holds the
\*       ids only, or is absent.
\* The carts: category C only; categories C and D; a small cart of 1.03;
\* a cart holding a null entry.
PromoCarts ==
  { <<LineItem("A", "C", 100, 2)>>,
    <<LineItem("A", "C", 100, 2), LineItem("B", "D", 50, 1)>>,
    <<LineItem("A", "C", 100, 1), LineItem("B", "D", 3, 1)>>,
    <<NullItem>> }

PromoRules ==
  { Rules("C", "A", 2, 1, 150), Rules("C", "A", NULL, NULL, NULL), NoRules }

InitPromo ==
  /\ coupons = [c \in CouponIds |->
       CouponRow(c, "SAVE10", TRUE, NULL, NULL, NULL, 0, NULL, NULL, NULL,
                 "fixed_amount", 50)]
  /\ usages = {}
  /\ clock = 0
  /\ pc = [p \in Procs |-> "off"]
  /\ call = [p \in Procs |-> NoCall]
  /\ vres = [p \in Procs |-> NoResult]
  /\ rlog = [p \in Procs |-> NoLog]
  /\ \E dt1 \in {"percentage", "fixed"}, pr \in {0, 1, 2}, a1 \in BOOLEAN,
        e1 \in {NULL, 1},
        t2 \in {"category_discount", "buy_x_get_y", "min_purchase"},
        dt2 \in {"percentage", "fixed"}, s2 \in {NULL, 1}, r2 \in PromoRules :
       promotions = [id \in PromoIds |->
         IF id = "p1"
         THEN PromoRow(id, "flash_sale", dt1, IF dt1 = "percentage" THEN 10 ELSE 500,
                       NoRules, pr, NULL, e1, a1)
         ELSE PromoRow(id, t2, dt2, IF dt2 = "percentage" THEN 5 ELSE 150,
                       r2, 1, s2, NULL, TRUE)]
  /\ cart \in PromoCarts
  /\ pres = NoPromoResult
  /\ plist = NoList
  /\ admin = NoAdmins

NextPromo ==
  \/ ApplyPromotions
  \/ GetActivePromotions
  \/ Tick

SpecPromo == InitPromo /\ [][NextPromo]_vars

\* The rules of buy_x_get_y and min_purchase: p2 is of one of these types,
\* 5 percent or a fixed 5.00, for product A or a product not in the cart,
\* buying 1, 2 or 3 to get 1 or 2, or from a subtotal of 2.00 or 3.00; p1
\* is a flash sale of 10 or of -10, percent or fixed.  The carts hold 1 to
\* 4 of product A at 1.00, or two lines of product A.
RulesCarts ==
  {<<LineItem("A", "C", 100, q)>> : q \in 1..4}
    \cup {<<LineItem("A", "C", 100, 2), LineItem("A", "C", 50, 4)>>}

InitRules ==
  /\ coupons = [c \in CouponIds |->
       CouponRow(c, "SAVE10", TRUE, NULL, NULL, NULL, 0, NULL, NULL, NULL,
                 "fixed_amount", 50)]
  /\ usages = {}
  /\ clock = 0
  /\ pc = [p \in Procs |-> "off"]
  /\ call = [p \in Procs |-> NoCall]
  /\ vres = [p \in Procs |-> NoResult]
  /\ rlog = [p \in Procs |-> NoLog]
  /\ \E dt1 \in {"percentage", "fixed"}, dv1 \in {10, -10},
        t2 \in {"buy_x_get_y", "min_purchase"}, dt2 \in {"percentage", "fixed"},
        pid \in {"A", "Z"}, bq \in {1, 2, 3}, gq \in {1, 2}, ma \in {200, 300} :
       promotions = [id \in PromoIds |->
         IF id = "p1"
         THEN PromoRow(id, "flash_sale", dt1, dv1, NoRules, 2, NULL, NULL, TRUE)
         ELSE PromoRow(id, t2, dt2, IF dt2 = "percentage" THEN 5 ELSE 500,
                       Rules("C", pid, bq, gq, ma), 1, NULL, NULL, TRUE)]
  /\ cart \in RulesCarts
  /\ pres = NoPromoResult
  /\ plist = NoList
  /\ admin = NoAdmins

SpecRules == InitRules /\ [][NextPromo]_vars

\* One customer's redemptions: coupon c1 has no global limit, customer u1
\* has redeemed it n times already, within the per-user limit, and starts
\* MaxProcs redemptions.
InitUser ==
  /\ \E lpu \in LimitsWritten :
       \E n \in CountsWithin(lpu) :
         /\ coupons = [c \in CouponIds |->
              CouponRow(c, "SAVE10", TRUE, NULL, NULL, NULL, n, NULL, NULL, lpu,
                        "fixed_amount", 50)]
         /\ usages = PriorUsages("c1", "u1", n)
  /\ clock = 0
  /\ pc = AllIdle
  /\ call = [p \in Procs |-> Request("save10", "u1", 100)]
  /\ vres = [p \in Procs |-> NoResult]
  /\ rlog = [p \in Procs |-> NoLog]
  /\ NoPromotionsInUse

SpecUser == InitUser /\ [][Next]_vars

\* The same request put to validateCoupon (process 1) and to the route
\* POST /validate (the other processes), on any stored coupon at instant 1.
ServiceProcs == {1}
RouteProcs == Procs \ ServiceProcs

InitRoute ==
  /\ \E vf \in {NULL, 2}, vt \in {NULL, 0}, ul \in {NULL, 1}, uc \in {0, 1},
        mp \in {NULL, 200}, lpu \in {NULL, 1}, dt \in DiscountTypes :
       \E n \in 0..uc :
         /\ coupons = [c \in CouponIds |->
              CouponRow(c, "SAVE10", TRUE, vf, vt, ul, uc, mp, NULL, lpu, dt, 10)]
         /\ usages = PriorUsages("c1", "u1", n)
  /\ clock = 1
  /\ pc = AllIdle
  /\ \E code \in {"save10", "OTHER"}, u \in {NoUser, "u1"},
        t \in CartTotals \cup {0} :
       call = [p \in Procs |-> Request(code, u, t)]
  /\ vres = [p \in Procs |-> NoResult]
  /\ rlog = [p \in Procs |-> NoLog]
  /\ NoPromotionsInUse

NextRoute ==
  \/ \E p \in ServiceProcs :
       StartRedemption(p) \/ ValidateLookup(p) \/ ValidateCount(p)
  \/ \E p \in RouteProcs : RouteValidate(p) \/ RouteCount(p)

SpecRoute == InitRoute /\ [][NextRoute]_vars

\* Admin updates of the two stored promotions, at any instant: the first
\* request carries any of the bodies below for p1, p2 or an id that is not
\* stored; the others set p2's priority.
UpdateBodies ==
  { NoBody,
    Body({"discountValue"}, [k \in {} |-> 0]),
    Body({"discountValue"}, [discountValue |-> 20]),
    Body({"priority", "isActive", "endsAt"}, [priority |-> 5, isActive |-> FALSE]),
    Body({"rules"}, [rules |-> Rules("D", NoId, NULL, NULL, NULL)]),
    Body({"colour"}, [colour |-> 1]),
    Body({"updatedAt"}, [updatedAt |-> 2]) }

InitUpdate ==
  /\ coupons = [c \in CouponIds |->
       CouponRow(c, "SAVE10", TRUE, NULL, NULL, NULL, 0, NULL, NULL, NULL,
                 "fixed_amount", 50)]
  /\ usages = {}
  /\ clock = 0
  /\ pc = [p \in Procs |-> "off"]
  /\ call = [p \in Procs |-> NoCall]
  /\ vres = [p \in Procs |-> NoResult]
  /\ rlog = [p \in Procs |-> NoLog]
  /\ promotions = [id \in PromoIds |->
       IF id = "p1"
       THEN PromoRow(id, "flash_sale", "percentage", 10, NoRules, 1, NULL, NULL, TRUE)
       ELSE PromoRow(id, "buy_x_get_y", "fixed", 5, Rules(NoId, "A", 2, 1, NULL),
                     0, 1, NULL, TRUE)]
  /\ cart = <<LineItem("A", "C", 100, 2)>>
  /\ pres = NoPromoResult
  /\ plist = NoList
  /\ \E id \in PromoIds \cup {"p9"}, body \in UpdateBodies :
       admin = [p \in Procs |->
         IF p = 1 THEN AdminRequest("updatePromotion", id, body)
         ELSE AdminRequest("updatePromotion", "p2",
                           Body({"priority"}, [priority |-> 7]))]

NextUpdate ==
  \/ \E p \in Procs : UpdatePromotion(p)
  \/ ApplyPromotions
  \/ Tick

SpecUpdate == InitUpdate /\ [][NextUpdate]_vars

\* Redemptions of coupon c1 (one use per customer), redeemed n times before
\* by customer u2, while one admin request asks to delete it, or to delete
\* a coupon that is not stored.
InitDelete ==
  /\ \E n \in {0, 1} :
       /\ coupons = [c \in CouponIds |->
            CouponRow(c, "SAVE10", TRUE, NULL, NULL, NULL, n, NULL, NULL, 1,
                      "fixed_amount", 50)]
       /\ usages = PriorUsages("c1", "u2", n)
  /\ clock = 0
  /\ pc = AllIdle
  /\ call \in [Procs -> {Request("save10", u, 100) : u \in {NoUser, "u1"}}]
  /\ vres = [p \in Procs |-> NoResult]
  /\ rlog = [p \in Procs |-> NoLog]
  /\ promotions = [id \in PromoIds |->
       PromoRow(id, "flash_sale", "percentage", 10, NoRules, 0, NULL, NULL, TRUE)]
  /\ cart = <<LineItem("A", "C", 100, 1)>>
  /\ pres = NoPromoResult
  /\ plist = NoList
  /\ \E id \in {"c1", "c9"} :
       admin = [p \in Procs |->
         IF p = 1 THEN AdminRequest("delete", id, NoBody) ELSE NoAdmin]

NextDelete ==
  \E p \in Procs : Redemption(p) \/ DeleteCount(p) \/ DeleteCoupon(p)

SpecDelete == InitDelete /\ [][NextDelete]_vars

\* Admin requests on the coupons table, which holds SAVE10 and has room
\* for more rows: each request creates a coupon under some code, or patches
\* the code or the isActive flag of a stored or unknown coupon.
CodeSlots == {"c1", "c2", "c3"}

CodeRequests ==
  {AdminRequest("create", "none", Body({"code"}, [code |-> code])) : code \in Codes}
  \cup {AdminRequest("patch", id, Body({"code"}, [code |-> code])) :
          id \in {"c1", "c2"}, code \in Codes}
  \cup {AdminRequest("patch", id, body) :
          id \in {"c1", "c9"},
          body \in {NoBody, Body({"isActive"}, [isActive |-> FALSE])}}

InitCodes ==
  /\ coupons = [c \in CodeSlots |->
       IF c = "c1"
       THEN CouponRow(c, "SAVE10", TRUE, NULL, NULL, NULL, 0, NULL, NULL, 1,
                      "fixed_amount", 50)
       ELSE NoRow]
  /\ usages = {}
  /\ clock = 0
  /\ pc = [p \in Procs |-> "off"]
  /\ call = [p \in Procs |-> NoCall]
  /\ vres = [p \in Procs |-> NoResult]
  /\ rlog = [p \in Procs |-> NoLog]
  /\ promotions = [id \in PromoIds |->
       PromoRow(id, "flash_sale", "percentage", 10, NoRules, 0, NULL, NULL, TRUE)]
  /\ cart = <<LineItem("A", "C", 100, 1)>>
  /\ pres = NoPromoResult
  /\ plist = NoList
  /\ admin \in [Procs -> CodeRequests]

NextCodes ==
  \E p \in Procs : CreateCheck(p) \/ CreateInsert(p) \/ PatchCheck(p) \/ PatchUpdate(p)

SpecCodes == InitCodes /\ [][NextCodes]_vars

\* ================================================================ claims
TheCoupon == coupons["c1"]

\* validateCoupon has answered redemption p and nothing has run since.
Answered(p) == pc[p] \in {"rejected", "validated"}
\* recordCouponUsage has ended for redemption p.
RecordEnded(p) == pc[p] \in {"recorded", "threw"}
AllEnded == \A p \in Procs : pc[p] \in {"rejected", "recorded", "threw"}

\* The request names the stored coupon, which is active, and no query failed.
FoundCoupon(p) ==
  /\ call[p].failed = "none"
  /\ Upper(call[p].code) = Upper(TheCoupon.code)
  /\ TheCoupon.isActive
NotYetActive(p) == TheCoupon.validFrom # NULL /\ call[p].now < TheCoupon.validFrom
PastValidTo(p) == TheCoupon.validTo # NULL /\ call[p].now > TheCoupon.validTo
BelowMinimum(p) ==
  TheCoupon.minPurchaseAmount # NULL /\ call[p].cartTotal < TheCoupon.minPurchaseAmount
UserRows(p) ==
  Cardinality({u \in usages : u.couponId = "c1" /\ u.userId = call[p].userId})

\* C1: with redemptions processed one at a time, a coupon whose usageLimit
\* is set never has usageCount above usageLimit.
C1_CountWithinLimit ==
  \A c \in CouponIds :
    coupons[c].usageLimit # NULL => coupons[c].usageCount <= coupons[c].usageLimit

\* A redemption used the last allowed use and a later one was turned away.
C1_Witness ==
  /\ TheCoupon.usageLimit # NULL
  /\ TheCoupon.usageCount = TheCoupon.usageLimit
  /\ \E p, q \in Procs :
       /\ pc[p] = "recorded"
       /\ pc[q] = "rejected" /\ vres[q].error = ErrExhausted

\* C2: with MaxProcs concurrent redemptions of a coupon, usageCount can end
\* above usageLimit, and never by more than MaxProcs - 1.
C2_ExcessBounded ==
  \A c \in CouponIds :
    coupons[c].usageLimit # NULL =>
      coupons[c].usageCount - coupons[c].usageLimit <= MaxProcs - 1

\* Every redemption passed the limit check before any recorded: the count
\* ends MaxProcs - 1 above the limit.
C2_Witness ==
  /\ AllEnded
  /\ TheCoupon.usageLimit # NULL
  /\ TheCoupon.usageCount = TheCoupon.usageLimit + MaxProcs - 1
  /\ TheCoupon.usageCount > TheCoupon.usageLimit

\* C3 (as claimed): when recordCouponUsage has ended, by success or by an
\* exception, its increment and its usage row have both been applied or
\* neither has.
C3_Atomic ==
  \A p \in Procs :
    RecordEnded(p) => (rlog[p].updated = 1 <=> rlog[p].inserted = 1)

\* C4: validateCoupon never raises; every failure, a failing query included,
\* is returned as {valid: false, error: message}.
C4_NeverRaises ==
  \A p \in Procs :
    Answered(p) =>
      /\ vres[p].kind = "return"
      /\ (~vres[p].valid => vres[p].error \in CheckErrors \cup {ErrStorage})
      /\ (call[p].failed # "none" => ~vres[p].valid /\ vres[p].error = ErrStorage)
      /\ (call[p].failed = "none" /\ ~FoundCoupon(p) => ~vres[p].valid)
      /\ (NotYetActive(p) \/ PastValidTo(p) \/ BelowMinimum(p) => ~vres[p].valid)
      /\ (TheCoupon.usageLimit > 0 /\ TheCoupon.usageCount >= TheCoupon.usageLimit
            => ~vres[p].valid)
      /\ (call[p].userId # NoUser /\ TheCoupon.usageLimitPerUser > 0
            /\ UserRows(p) >= TheCoupon.usageLimitPerUser => ~vres[p].valid)

\* The per-user count query failed and the failure came back as a value.
C4_Witness ==
  \E p \in Procs :
    /\ Answered(p) /\ call[p].failed = "count"
    /\ vres[p] = [kind |-> "return", valid |-> FALSE, error |-> ErrStorage,
                  couponId |-> "none", discountAmount |-> 0, freeShipping |-> FALSE]

\* C5: a step of validateCoupon or of applyPromotions, whatever it returns,
\* leaves the coupons (usageCount included), the usage rows, the promotions
\* and the cart items unchanged; usageCount changes only in the increment
\* statement of recordCouponUsage.
C5_ValidatorsReadOnly ==
  [][ /\ ((\E p \in Procs : pc[p] \in {"idle", "lookup", "count"} /\ pc'[p] # pc[p])
            \/ pres' # pres)
          => (coupons' = coupons /\ usages' = usages
              /\ promotions' = promotions /\ cart' = cart)
      /\ (\E c \in CouponIds : coupons'[c].usageCount # coupons[c].usageCount)
          => (\E p \in Procs : pc[p] = "validated" /\ pc'[p] = "insert")
    ]_vars

\* validateCoupon answered valid after the count query, applyPromotions
\* returned a discount, and the coupon still holds its initial count.
C5_Witness ==
  \E p \in Procs :
    /\ pc[p] = "validated" /\ vres[p].valid /\ call[p].userUsageCount # NULL
    /\ pres.kind = "return" /\ pres.appliedPromotions # <<>>
    /\ TheCoupon.usageCount = Cardinality(usages)

\* C6: a failing statement of recordCouponUsage ends the call with an
\* exception, and one call issues at most one increment and one insert.
C6_RaisesWithoutRetry ==
  \A p \in Procs :
    /\ rlog[p].updates <= 1 /\ rlog[p].inserts <= 1
    /\ (rlog[p].updates > rlog[p].updated \/ rlog[p].inserts > rlog[p].inserted)
         => pc[p] = "threw" /\ rlog[p].outcome = "throw"
    /\ rlog[p].outcome = "success" => rlog[p].updated = 1 /\ rlog[p].inserted = 1

\* The insert failed after the increment: the call raised, nothing reissued.
C6_Witness ==
  \E p \in Procs :
    /\ pc[p] = "threw"
    /\ rlog[p] = [updates |-> 1, inserts |-> 1, updated |-> 1, inserted |-> 0,
                  outcome |-> "throw"]

\* C7 (as claimed): a found coupon past validTo fails with Expired whatever
\* its other fields, validFrom included.
C7_AlwaysExpired ==
  \A p \in Procs :
    Answered(p) /\ FoundCoupon(p) /\ PastValidTo(p) =>
      ~vres[p].valid /\ vres[p].error = ErrExpired

\* C7 (amended): a found coupon past validTo always fails; the error is
\* Expired unless now < validFrom, which is reported first as NotYetActive.
C7_ExpiredUnlessNotYetActive ==
  \A p \in Procs :
    Answered(p) /\ FoundCoupon(p) /\ PastValidTo(p) =>
      /\ ~vres[p].valid
      /\ vres[p].error = IF NotYetActive(p) THEN ErrNotYetActive ELSE ErrExpired

\* Expired is reported for a coupon that is also exhausted, below the
\* minimum purchase and at the user's limit.
C7_Witness ==
  \E p \in Procs :
    /\ Answered(p) /\ FoundCoupon(p) /\ PastValidTo(p)
    /\ vres[p].error = ErrExpired
    /\ TheCoupon.usageLimit > 0 /\ TheCoupon.usageCount >= TheCoupon.usageLimit
    /\ BelowMinimum(p)
    /\ call[p].userId # NoUser /\ TheCoupon.usageLimitPerUser > 0
    /\ UserRows(p) >= TheCoupon.usageLimitPerUser

C9_TemporalCheck ==
  \A p \in Procs :
    Answered(p) /\ FoundCoupon(p) =>
      /\ vres[p].error \in {ErrNotYetActive, ErrExpired}
           <=> (NotYetActive(p) \/ PastValidTo(p))
      /\ vres[p].error = ErrNotYetActive => NotYetActive(p)
      /\ vres[p].error = ErrExpired => PastValidTo(p)

\* A coupon whose window is the single instant `now` is accepted.
C9_Witness ==
  \E p \in Procs :
    /\ Answered(p) /\ FoundCoupon(p) /\ vres[p].valid
    /\ TheCoupon.validFrom = call[p].now /\ TheCoupon.validTo = call[p].now

\* No check before the per-user one rejects redemption p.
EarlierChecksPass(p) ==
  /\ FoundCoupon(p) /\ ~NotYetActive(p) /\ ~PastValidTo(p) /\ ~BelowMinimum(p)
  /\ ~(TheCoupon.usageLimit # NULL /\ TheCoupon.usageLimit # 0
       /\ TheCoupon.usageCount >= TheCoupon.usageLimit)

\* C10 (as claimed): for an identified user of a found coupon whose
\* usageLimitPerUser is set, rows >= usageLimitPerUser gives
\* PerUserLimitReached; without a userId the per-user check is skipped.
C10_PerUserAlways ==
  \A p \in Procs :
    Answered(p) /\ FoundCoupon(p) =>
      /\ (call[p].userId # NoUser /\ TheCoupon.usageLimitPerUser # NULL
            /\ UserRows(p) >= TheCoupon.usageLimitPerUser)
           => ~vres[p].valid /\ vres[p].error = ErrPerUser
      /\ call[p].userId = NoUser =>
           vres[p].error # ErrPerUser /\ call[p].userUsageCount = NULL

\* C10 (amended): the same when no earlier check rejects and the limit is
\* not 0; otherwise the earlier check's error is reported, and a stored
\* limit of 0 is read as no limit.
C10_PerUserWhenReached ==
  \A p \in Procs :
    Answered(p) /\ FoundCoupon(p) =>
      /\ (call[p].userId # NoUser /\ TheCoupon.usageLimitPerUser # NULL
            /\ TheCoupon.usageLimitPerUser # 0 /\ EarlierChecksPass(p)
            /\ UserRows(p) >= TheCoupon.usageLimitPerUser)
           => ~vres[p].valid /\ vres[p].error = ErrPerUser
      /\ call[p].userId = NoUser =>
           vres[p].error # ErrPerUser /\ call[p].userUsageCount = NULL

\* The user is at the per-user limit while the global count is below the
\* global limit: PerUserLimitReached.
C10_Witness ==
  \E p \in Procs :
    /\ Answered(p) /\ FoundCoupon(p)
    /\ vres[p].error = ErrPerUser
    /\ UserRows(p) = TheCoupon.usageLimitPerUser
    /\ TheCoupon.usageLimit > 0 /\ TheCoupon.usageCount < TheCoupon.usageLimit

\* The checks redemption p fails, each taken alone on the stored state.
GloballyExhausted ==
  /\ TheCoupon.usageLimit # NULL /\ TheCoupon.usageLimit # 0
  /\ TheCoupon.usageCount >= TheCoupon.usageLimit
UserAtLimit(p) ==
  /\ call[p].userId # NoUser
  /\ TheCoupon.usageLimitPerUser # NULL /\ TheCoupon.usageLimitPerUser # 0
  /\ UserRows(p) >= TheCoupon.usageLimitPerUser
FailedChecks(p) ==
  {e \in CheckErrors :
     \/ e = ErrNotFound /\ ~FoundCoupon(p)
     \/ e = ErrNotYetActive /\ FoundCoupon(p) /\ NotYetActive(p)
     \/ e = ErrExpired /\ FoundCoupon(p) /\ PastValidTo(p)
     \/ e = ErrExhausted /\ FoundCoupon(p) /\ GloballyExhausted
     \/ e = ErrBelowMinimum /\ FoundCoupon(p) /\ BelowMinimum(p)
     \/ e = ErrPerUser /\ FoundCoupon(p) /\ UserAtLimit(p)}
\* The documented order of the steps.
StepOrder == <<ErrNotFound, ErrNotYetActive, ErrExpired, ErrExhausted,
               ErrBelowMinimum, ErrPerUser>>
StepOf(e) == CHOOSE i \in DOMAIN StepOrder : StepOrder[i] = e

\* C11: when the queries succeed, the error validateCoupon reports is the
\* one of the earliest failing step in the order NotFound, NotYetActive,
\* Expired, Exhausted, BelowMinimum, PerUserLimitReached, and the answer
\* is valid when no step fails.
C11_EarliestError ==
  \A p \in Procs :
    Answered(p) /\ call[p].failed = "none" =>
      IF FailedChecks(p) = {} THEN vres[p].valid
      ELSE /\ ~vres[p].valid
           /\ vres[p].error \in FailedChecks(p)
           /\ \A e \in FailedChecks(p) : StepOf(vres[p].error) <= StepOf(e)

\* A cart below the minimum, for a user already at the per-user limit, of
\* a coupon inside its window and not exhausted: BelowMinimum is reported.
C11_Witness ==
  \E p \in Procs :
    /\ Answered(p) /\ call[p].failed = "none"
    /\ FailedChecks(p) = {ErrBelowMinimum, ErrPerUser}
    /\ vres[p].error = ErrBelowMinimum

\* validateCoupon answered redemption p valid, for a coupon of type dt.
ValidOfType(p, dt) ==
  Answered(p) /\ vres[p].valid /\ TheCoupon.discountType = dt

\* cartTotal * discountValue / 100, in hundredths of a cent.
PercentOfCart(p) == call[p].cartTotal * TheCoupon.discountValue

\* C12: a valid percentage coupon gives cartTotal * discountValue / 100
\* without maxDiscountAmount and the smaller of that and maxDiscountAmount
\* with it, as the two-decimal amount returned; discountAmount is then
\* never above maxDiscountAmount.
C12_PercentageClamped ==
  \A p \in Procs :
    ValidOfType(p, "percentage") =>
      /\ TheCoupon.maxDiscountAmount = NULL =>
            vres[p].discountAmount = ToFixed2(PercentOfCart(p))
      /\ TheCoupon.maxDiscountAmount # NULL =>
            /\ vres[p].discountAmount =
                 IF PercentOfCart(p) <= TheCoupon.maxDiscountAmount * 100
                 THEN ToFixed2(PercentOfCart(p)) ELSE TheCoupon.maxDiscountAmount
            /\ vres[p].discountAmount <= TheCoupon.maxDiscountAmount

\* 10 percent of a cart of 100.00 with a cap of 5.00 gives 5.00.
C12_Witness ==
  \E p \in Procs :
    /\ ValidOfType(p, "percentage")
    /\ call[p].cartTotal = 10000 /\ TheCoupon.discountValue = 10
    /\ TheCoupon.maxDiscountAmount = 500
    /\ vres[p].discountAmount = 500

\* C13: a valid fixed_amount coupon gives min(discountValue, cartTotal),
\* never more than cartTotal.
C13_FixedAmountCapped ==
  \A p \in Procs :
    ValidOfType(p, "fixed_amount") =>
      /\ vres[p].discountAmount =
           IF TheCoupon.discountValue <= call[p].cartTotal
           THEN TheCoupon.discountValue ELSE call[p].cartTotal
      /\ vres[p].discountAmount <= call[p].cartTotal

\* A fixed amount of 2.00 on a cart of 1.03 gives 1.03.
C13_Witness ==
  \E p \in Procs :
    /\ ValidOfType(p, "fixed_amount")
    /\ TheCoupon.discountValue = 200 /\ call[p].cartTotal = 103
    /\ vres[p].discountAmount = 103

\* C14: in a valid result freeShipping is true exactly for a free_shipping
\* coupon, whose discountAmount is 0 whatever discountValue and cartTotal.
C14_FreeShipping ==
  \A p \in Procs :
    Answered(p) /\ vres[p].valid =>
      /\ vres[p].freeShipping <=> TheCoupon.discountType = "free_shipping"
      /\ TheCoupon.discountType = "free_shipping" => vres[p].discountAmount = 0

\* A free_shipping coupon of value 200 on a cart of 100.00: flag set, 0.00.
C14_Witness ==
  \E p \in Procs :
    /\ ValidOfType(p, "free_shipping")
    /\ TheCoupon.discountValue = 200 /\ call[p].cartTotal = 10000
    /\ vres[p].freeShipping /\ vres[p].discountAmount = 0

\* applyPromotions has returned from its catch block.
FellBack == pres.kind = "return" /\ ~pres.fixed2
\* applyPromotions has returned from its try block.
Evaluated == pres.kind = "return" /\ pres.fixed2

\* C15: applyPromotions raises nothing: whatever the cart and the outcome
\* of the promotions query, it returns a totalDiscount and a list of
\* applied promotions.
C15_NeverFails ==
  pres.kind # "none" =>
    /\ pres.kind = "return"
    /\ pres.totalDiscount >= 0
    /\ FellBack => pres.totalDiscount = 0 /\ pres.appliedPromotions = <<>>
    /\ Raises(cart) /\ ActivePromos(pres.now) # {} => FellBack

\* The fallback was returned for a cart whose null entry made the
\* evaluation of an active promotion raise.
C15_Witness ==
  /\ FellBack /\ Raises(cart)
  /\ ActivePromos(pres.now) = PromoIds

\* What promotion id contributed to the result: the discounts of its entries.
EntriesOf(id) ==
  SelectSeq(pres.appliedPromotions, LAMBDA e : e.id = id)
Contribution(id) == SumDiscounts(EntriesOf(id))

\* The rules payload of a promotion lacks a field its type requires.
LacksId(promo) ==
  \/ promo.type = "category_discount" /\ promo.rules.categoryId = NoId
  \/ promo.type = "buy_x_get_y" /\ promo.rules.productId = NoId
LacksRequiredField(promo) ==
  \/ LacksId(promo)
  \/ promo.type = "buy_x_get_y"
       /\ (promo.rules.buyQuantity = NULL \/ promo.rules.getQuantity = NULL)
  \/ promo.type = "min_purchase" /\ promo.rules.minAmount = NULL

\* The payload with buyQuantity 2, getQuantity 1 and minAmount 0 written
\* where it holds none.
WithDefaults(promo) ==
  [promo EXCEPT
     !.rules.buyQuantity = IF @ = NULL THEN 2 ELSE @,
     !.rules.getQuantity = IF @ = NULL THEN 1 ELSE @,
     !.rules.minAmount = IF @ = NULL THEN 0 ELSE @]

\* C16 (as claimed): an evaluated promotion whose payload lacks categoryId,
\* productId, buyQuantity, getQuantity or minAmount, as its type requires,
\* contributes 0, and every other evaluated promotion contributes its own
\* discount.
C16_MissingFieldGivesZero ==
  Evaluated =>
    \A id \in ActivePromos(pres.now) :
      IF LacksRequiredField(promotions[id]) THEN Contribution(id) = 0
      ELSE Contribution(id) = PromoDiscount(promotions[id], cart)

\* C16 (amended): an evaluated promotion whose payload lacks categoryId
\* (category_discount) or productId (buy_x_get_y) contributes 0; one that
\* lacks buyQuantity, getQuantity or minAmount contributes what the same
\* promotion with buyQuantity 2, getQuantity 1 or minAmount 0 contributes;
\* every other evaluated promotion contributes its own discount.
C16_MissingIdGivesZero ==
  Evaluated =>
    \A id \in ActivePromos(pres.now) :
      IF LacksId(promotions[id]) THEN Contribution(id) = 0
      ELSE /\ Contribution(id) = PromoDiscount(WithDefaults(promotions[id]), cart)
           /\ ~LacksRequiredField(promotions[id]) =>
                Contribution(id) = PromoDiscount(promotions[id], cart)

\* A category discount without categoryId gave nothing while the flash
\* sale evaluated in the same call gave its discount.
C16_Witness ==
  /\ Evaluated /\ ActivePromos(pres.now) = PromoIds
  /\ promotions["p2"].type = "category_discount" /\ LacksId(promotions["p2"])
  /\ Contribution("p2") = 0
  /\ Contribution("p1") > 0
  /\ Len(pres.appliedPromotions) = 1

\* The promotions the claim names at an instant: isActive, started, not ended.
InWindow(id, now) ==
  /\ promotions[id].isActive
  /\ ~(promotions[id].startsAt # NULL /\ promotions[id].startsAt > now)
  /\ ~(promotions[id].endsAt # NULL /\ promotions[id].endsAt < now)
Listed == {plist.rows[i] : i \in DOMAIN plist.rows}
AppliedIds == {pres.appliedPromotions[i].id : i \in DOMAIN pres.appliedPromotions}

\* C17: applyPromotions and getActivePromotions consider exactly the
\* promotions that are active, started (startsAt null or <= now) and not
\* ended (endsAt null or >= now): no other promotion is applied or listed,
\* and each of these is listed and, when its discount is positive, applied.
C17_ActiveWindow ==
  /\ Evaluated =>
        \A id \in PromoIds :
          id \in AppliedIds <=>
            InWindow(id, pres.now) /\ PromoDiscount(promotions[id], cart) > 0
  /\ FellBack => AppliedIds = {}
  /\ plist.kind = "return" =>
        Listed = IF plist.failed THEN {}
                 ELSE {id \in PromoIds : InWindow(id, plist.now)}

\* At instant 1, the last of p1 and the first of p2, both were applied and
\* both were listed.
C17_Witness ==
  /\ promotions["p1"].endsAt = 1 /\ promotions["p2"].startsAt = 1
  /\ Evaluated /\ pres.now = 1 /\ AppliedIds = PromoIds
  /\ plist.kind = "return" /\ plist.now = 1 /\ Listed = PromoIds

\* The discount of promotion id on the supplied cart at an instant, taken
\* alone: 0 outside its window or when it computes nothing positive.
OwnDiscount(id, now) ==
  IF InWindow(id, now) /\ PromoDiscount(promotions[id], cart) > 0
  THEN PromoDiscount(promotions[id], cart) ELSE 0

RECURSIVE SumOwnDiscounts(_, _)
SumOwnDiscounts(ids, now) ==
  IF ids = {} THEN 0
  ELSE LET id == CHOOSE x \in ids : TRUE
       IN OwnDiscount(id, now) + SumOwnDiscounts(ids \ {id}, now)

\* C18: the totalDiscount of an evaluation is the sum of the discounts of
\* all applicable active promotions, each computed on the original cart, as
\* the two-decimal amount returned: nothing compounds, the loop does not
\* stop at the first match, and the sum is not clamped to the subtotal.
C18_IndependentSum ==
  Evaluated =>
    /\ pres.totalDiscount = ToFixed2(SumOwnDiscounts(PromoIds, pres.now))
    /\ \A id \in PromoIds : Contribution(id) = OwnDiscount(id, pres.now)

\* A 10 percent flash sale and a 5 percent discount on category C, on a
\* cart of category C only: 15 percent of the subtotal.
C18_Witness ==
  /\ Evaluated /\ AppliedIds = PromoIds
  /\ promotions["p1"].discountType = "percentage"
  /\ promotions["p2"].type = "category_discount"
  /\ promotions["p2"].discountType = "percentage"
  /\ \A i \in DOMAIN cart : cart[i].categoryId = promotions["p2"].rules.categoryId
  /\ pres.totalDiscount * 100 = Subtotal(cart) * 15

\* Every order in which a set of rows can be evaluated.
Orderings(ids) ==
  {order \in [1..Cardinality(ids) -> ids] :
     \A i, j \in DOMAIN order : i # j => order[i] # order[j]}
EntrySet(applied) == {applied[i] : i \in DOMAIN applied}

\* C19: for the cart and the active promotions of an evaluation, every
\* evaluation order gives the same totalDiscount and the same discount for
\* each promotion; the priorities decide only the order of
\* appliedPromotions, which is by descending priority.
C19_OrderIrrelevant ==
  Evaluated =>
    /\ \A order \in Orderings(ActivePromos(pres.now)) :
         /\ ToFixed2(SumDiscounts(Applied(order, cart))) = pres.totalDiscount
         /\ EntrySet(Applied(order, cart)) = EntrySet(pres.appliedPromotions)
    /\ \A i, j \in DOMAIN pres.appliedPromotions :
         i < j => promotions[pres.appliedPromotions[i].id].priority
                    >= promotions[pres.appliedPromotions[j].id].priority

\* Both promotions were applied with the flash sale, of higher priority,
\* reported first.
C19_Witness ==
  /\ Evaluated /\ Len(pres.appliedPromotions) = 2
  /\ pres.appliedPromotions[1].id = "p1"
  /\ promotions["p1"].priority > promotions["p2"].priority

\* The sum of price * quantity over the cart items of a category.
RECURSIVE CategoryBase(_, _)
CategoryBase(n, categoryId) ==
  IF n = 0 THEN 0
  ELSE (IF cart[n].categoryId = categoryId
        THEN cart[n].price * cart[n].quantity ELSE 0)
       + CategoryBase(n - 1, categoryId)

\* The sum of price * quantity over the whole cart.
RECURSIVE CartBase(_)
CartBase(n) ==
  IF n = 0 THEN 0 ELSE cart[n].price * cart[n].quantity + CartBase(n - 1)

\* base * discountValue / 100 or min(discountValue, base), in hundredths
\* of a cent.
DiscountOn(promo, base) ==
  IF promo.discountType = "percentage" THEN base * promo.discountValue
  ELSE IF promo.discountValue <= base THEN promo.discountValue * 100
  ELSE base * 100

\* C20: an evaluated category_discount gives its percentage of, or its
\* fixed value capped at, the sum of price * quantity over the items of
\* rules.categoryId; a flash_sale gives the same on the whole subtotal.
C20_DiscountBase ==
  Evaluated =>
    \A id \in ActivePromos(pres.now) :
      LET promo == promotions[id] IN
      /\ promo.type = "category_discount" /\ promo.rules.categoryId # NoId =>
           Contribution(id) =
             DiscountOn(promo, CategoryBase(Len(cart), promo.rules.categoryId))
      /\ promo.type = "flash_sale" =>
           Contribution(id) = DiscountOn(promo, CartBase(Len(cart)))

\* On a cart of 2.00 in category C and 0.50 in category D, 5 percent of
\* category C gave 0.10 and the 10 percent flash sale gave 0.25.
C20_Witness ==
  /\ Evaluated /\ AppliedIds = PromoIds
  /\ CategoryBase(Len(cart), "C") = 200 /\ CartBase(Len(cart)) = 250
  /\ promotions["p2"].type = "category_discount"
  /\ Contribution("p2") = 1000
  /\ Contribution("p1") = 2500

\* The first cart line of a product, or 0 when the cart holds none.
FirstLineOf(productId) ==
  IF \E i \in DOMAIN cart : cart[i].productId = productId
  THEN CHOOSE i \in DOMAIN cart :
         /\ cart[i].productId = productId
         /\ \A j \in DOMAIN cart : cart[j].productId = productId => i <= j
  ELSE 0

\* C21: an evaluated buy_x_get_y promotion gives
\* floor(quantity / buyQuantity) * getQuantity * price of the cart line
\* matching rules.productId: 0 when quantity < buyQuantity or when no line
\* matches, 2 * getQuantity * price when quantity = 2 * buyQuantity.
C21_BuyXGetY ==
  Evaluated =>
    \A id \in ActivePromos(pres.now) :
      LET promo == promotions[id]
          rules == promo.rules
          n == FirstLineOf(rules.productId)
      IN promo.type = "buy_x_get_y" /\ rules.buyQuantity > 0 /\ rules.getQuantity > 0 =>
           IF n = 0 THEN Contribution(id) = 0
           ELSE /\ Contribution(id) =
                     ((cart[n].quantity \div rules.buyQuantity) * rules.getQuantity
                        * cart[n].price) * 100
                /\ cart[n].quantity < rules.buyQuantity => Contribution(id) = 0
                /\ cart[n].quantity = 2 * rules.buyQuantity =>
                     Contribution(id) = (2 * rules.getQuantity * cart[n].price) * 100

\* Buy 2 get 2 on a line of 4 at 1.00: two sets, 4.00 off.
C21_Witness ==
  /\ Evaluated
  /\ promotions["p2"].type = "buy_x_get_y"
  /\ promotions["p2"].rules.buyQuantity = 2 /\ promotions["p2"].rules.getQuantity = 2
  /\ FirstLineOf(promotions["p2"].rules.productId) = 1
  /\ cart[1].quantity = 4 /\ cart[1].price = 100
  /\ Contribution("p2") = 40000

\* C22: an evaluated min_purchase promotion gives 0 below rules.minAmount
\* and, from a subtotal equal to it upward, subtotal * discountValue / 100
\* for percentage and the whole discountValue for fixed, even above the
\* subtotal.
C22_MinPurchase ==
  Evaluated =>
    \A id \in ActivePromos(pres.now) :
      LET promo == promotions[id]
          subtotal == CartBase(Len(cart))
      IN promo.type = "min_purchase" /\ promo.rules.minAmount > 0
           /\ promo.discountValue > 0 =>
           IF subtotal < promo.rules.minAmount THEN Contribution(id) = 0
           ELSE Contribution(id) =
                  IF promo.discountType = "percentage"
                  THEN subtotal * promo.discountValue
                  ELSE promo.discountValue * 100

\* A fixed 5.00 from 2.00 on a cart of exactly 2.00: 5.00 off.
C22_Witness ==
  /\ Evaluated
  /\ promotions["p2"].type = "min_purchase"
  /\ promotions["p2"].discountType = "fixed"
  /\ CartBase(Len(cart)) = promotions["p2"].rules.minAmount
  /\ Contribution("p2") = 50000
  /\ Contribution("p2") > CartBase(Len(cart)) * 100

\* The sum of the discount fields of the first n listed entries.
RECURSIVE SumOfListed(_)
SumOfListed(n) ==
  IF n = 0 THEN 0 ELSE pres.appliedPromotions[n].discount + SumOfListed(n - 1)

\* C29: in every result of applyPromotions, appliedPromotions lists exactly
\* the evaluated active promotions whose discount is > 0, each once, and
\* totalDiscount is the sum of the listed discounts, as the two-decimal
\* amount returned; a promotion computing 0 or less is neither listed nor
\* added.
C29_ListedExactly ==
  pres.kind = "return" =>
    /\ AppliedIds =
         IF Evaluated
         THEN {id \in ActivePromos(pres.now) : PromoDiscount(promotions[id], cart) > 0}
         ELSE {}
    /\ \A i, j \in DOMAIN pres.appliedPromotions :
         i # j => pres.appliedPromotions[i].id # pres.appliedPromotions[j].id
    /\ \A i \in DOMAIN pres.appliedPromotions :
         /\ pres.appliedPromotions[i].discount > 0
         /\ pres.appliedPromotions[i].discount =
              PromoDiscount(promotions[pres.appliedPromotions[i].id], cart)
    /\ pres.totalDiscount =
         IF Evaluated THEN ToFixed2(SumOfListed(Len(pres.appliedPromotions))) ELSE 0

\* The flash sale computed a negative amount and p2 a positive one: only
\* p2 is listed and the total is p2's discount.
C29_Witness ==
  /\ Evaluated
  /\ PromoDiscount(promotions["p1"], cart) < 0
  /\ Len(pres.appliedPromotions) = 1
  /\ pres.appliedPromotions[1].id = "p2"
  /\ pres.totalDiscount * 100 = pres.appliedPromotions[1].discount

\* C30 (as claimed): every valid result for a cart total >= 0 and a
\* positive discountValue has 0 <= discountAmount <= cartTotal, whatever
\* the discount type and maxDiscountAmount.
C30_DiscountWithinCart ==
  \A p \in Procs :
    Answered(p) /\ vres[p].valid /\ call[p].cartTotal >= 0
      /\ TheCoupon.discountValue > 0 =>
      /\ 0 <= vres[p].discountAmount
      /\ vres[p].discountAmount <= call[p].cartTotal

\* The usage rows stored for a coupon.
RowsOf(c) == {u \in usages : u.couponId = c}

\* C26: when no recordCouponUsage call is between its two statements and
\* none has failed, each coupon's usageCount is the number of its usage
\* rows, in every interleaving of the calls.
C26_CountMatchesRows ==
  (\A p \in Procs : pc[p] # "insert" /\ pc[p] # "threw") =>
    \A c \in CouponIds : coupons[c].usageCount = Cardinality(RowsOf(c))

\* Every redemption was recorded and the count grew by one for each.
C26_Witness ==
  /\ \A p \in Procs : pc[p] = "recorded" /\ rlog[p].outcome = "success"
  /\ TheCoupon.usageCount = Cardinality(RowsOf("c1"))
  /\ TheCoupon.usageCount >= MaxProcs

\* C27 (as claimed): for an identified user of a coupon whose
\* usageLimitPerUser is set, the usage rows of (coupon, user) never exceed
\* usageLimitPerUser, in every interleaving of the user's redemptions.
C27_WithinPerUserLimit ==
  \A p \in Procs :
    call[p].userId # NoUser /\ TheCoupon.usageLimitPerUser # NULL =>
      UserRows(p) <= TheCoupon.usageLimitPerUser

\* C27 (amended): the rows of (coupon, user) can exceed usageLimitPerUser
\* when the user's redemptions interleave, by at most MaxProcs - 1 for
\* MaxProcs concurrent redemptions.
C27_PerUserExcessBounded ==
  \A p \in Procs :
    call[p].userId # NoUser /\ TheCoupon.usageLimitPerUser # NULL =>
      UserRows(p) - TheCoupon.usageLimitPerUser <= MaxProcs - 1

\* Every redemption of the user passed the per-user check before any was
\* recorded: the rows end MaxProcs - 1 above the limit.
C27_Witness ==
  /\ AllEnded
  /\ TheCoupon.usageLimitPerUser # NULL
  /\ UserRows(1) = TheCoupon.usageLimitPerUser + MaxProcs - 1
  /\ UserRows(1) > TheCoupon.usageLimitPerUser

\* The check a message reports, whichever of the two implementations worded it.
FailingCheck(message) ==
  CASE message = NoError -> "none"
    [] message = ErrNotFound -> "lookup"
    [] message \in {ErrNotYetActive, RteNotYetActive} -> "validFrom"
    [] message \in {ErrExpired, RteExpired} -> "validTo"
    [] message \in {ErrExhausted, RteExhausted} -> "usageLimit"
    [] message = ErrBelowMinimum -> "minimum"
    [] message \in {ErrPerUser, RtePerUser} -> "perUser"
    [] OTHER -> "other"

\* Both implementations answered a request the route's schema admits, and
\* no query of either failed.
BothAnswered(s, r) ==
  /\ vres[s].kind = "return"
  /\ vres[r].kind \in {"http200", "http400", "http404"}
  /\ call[s].failed = "none" /\ call[r].failed = "none"
  /\ call[r].cartTotal > 0

\* C28: for the same coupon state and the same request, the route
\* POST /validate and validateCoupon give the same outcome: success exactly
\* when valid, the same discountAmount, and the same failing check.
C28_SameOutcome ==
  \A s \in ServiceProcs, r \in RouteProcs :
    BothAnswered(s, r) =>
      /\ vres[r].valid = vres[s].valid
      /\ vres[r].discountAmount = vres[s].discountAmount
      /\ FailingCheck(vres[r].error) = FailingCheck(vres[s].error)

\* The step of process p that runs updatePromotion to its end.
UpdateStep(p) ==
  /\ admin[p].op = "updatePromotion"
  /\ admin[p].pc = "idle"
  /\ admin'[p].pc = "done"

\* What an updatePromotion step does to the table, `exempt` being the
\* fields beside the defined ones that the step may change.
UpdateEffect(p, exempt) ==
  LET id == admin[p].id
      values == admin[p].body.values
  IN
  /\ \A q \in DOMAIN promotions \ {id} : promotions'[q] = promotions[q]
  /\ id \in DOMAIN promotions =>
       \A f \in DOMAIN promotions[id] \ (DOMAIN values \cup exempt) :
         promotions'[id][f] = promotions[id][f]
  /\ admin'[p].outcome = "return" =>
       /\ id \in DOMAIN promotions
       /\ \A f \in DOMAIN values : promotions'[id][f] = values[f]
  /\ (DOMAIN values = {} \/ id \notin DOMAIN promotions) =>
       /\ admin'[p].outcome # "return"
       /\ promotions' = promotions

\* C23 (as claimed): updatePromotion changes only the fields present in the
\* patch with a defined value; every other field of that promotion and every
\* other promotion keep their values; a rules value replaces the whole
\* payload; a patch with no defined field, or an unknown id, raises an error
\* and changes no promotion.
C23_OnlyPatchedFields ==
  [][\A p \in Procs : UpdateStep(p) => UpdateEffect(p, {})]_vars

\* C23 (amended): as above, except that a successful update also sets the
\* promotion's updatedAt to the current time.
C23_OnlyPatchedFieldsAndUpdatedAt ==
  [][\A p \in Procs : UpdateStep(p) =>
       /\ UpdateEffect(p, {"updatedAt"})
       /\ admin'[p].outcome = "return" =>
            promotions'[admin[p].id].updatedAt = clock]_vars

\* A rules value replaced the stored payload of p2, whose other keys are
\* gone, and the row's updatedAt moved.
C23_Witness ==
  /\ admin[1].pc = "done" /\ admin[1].outcome = "return"
  /\ admin[1].id = "p2"
  /\ "rules" \in DOMAIN admin[1].body.values
  /\ promotions["p2"].rules = Rules("D", NoId, NULL, NULL, NULL)
  /\ promotions["p2"].updatedAt > 0
  /\ promotions["p2"].discountValue = 5

\* C24: no step updates or removes a coupon_usage row once it is written,
\* and no step deletes a coupon that has at least one usage row, in every
\* interleaving of the DELETE route with recordCouponUsage.
C24_UsageRowsKept ==
  [][/\ usages \subseteq usages'
     /\ \A c \in DOMAIN coupons :
          (coupons[c] # NoRow /\ coupons'[c] = NoRow) => UsageCountOf(c) = 0]_vars

\* The stored coupons whose code equals `code` without regard to case.
SameCode(code) ==
  {c \in DOMAIN coupons : coupons[c] # NoRow /\ Upper(coupons[c].code) = Upper(code)}

\* C25: after any interleaving of admin create and patch requests, no two
\* stored coupons have codes that are equal when compared without regard to
\* case; so a create request for a code that exists in any letter case has
\* added no coupon.
C25_CodesUnique ==
  /\ \A c \in DOMAIN coupons :
       coupons[c] # NoRow => SameCode(coupons[c].code) = {c}
  /\ \A p \in Procs :
       admin[p].op = "create" /\ admin[p].outcome = "http201" /\ Stored(admin[p].id)
         => SameCode(coupons[admin[p].id].code) = {admin[p].id}

\* A create request for "save10" was refused while SAVE10 is stored, and
\* another request added or renamed a coupon.
C25_Witness ==
  /\ \E p \in Procs :
       /\ admin[p].op = "create" /\ admin[p].pc = "done"
       /\ admin[p].body.values.code = "save10"
       /\ admin[p].outcome \in {"http400", "next"}
  /\ SameCode("save10") # {}
  /\ Cardinality({c \in DOMAIN coupons : coupons[c] # NoRow}) >= 2

====
